---- MODULE Spec2Model ----
(***************************************************************************)
(* Model of the neuromaps-prime transform graph: the keyed resource cache  *)
(* (GraphCache), the graph builder (GraphBuilder), class-restricted        *)
(* shortest-path queries with their memoised per-class subgraph            *)
(* (GraphUtils), manual registration (NeuromapsGraph.add_transform) and    *)
(* the multi-hop sphere-transform composition (SurfaceTransformOps).       *)
(***************************************************************************)
EXTENDS Integers, Sequences, FiniteSets, TLC

(***************************************************************************)
(* Bounds of the model.                                                    *)
(***************************************************************************)
MaxAdds == 1

(***************************************************************************)
(* Values.                                                                 *)
(***************************************************************************)
surface_to_surface_key == "surface_to_surface"
volume_to_volume_key == "volume_to_volume"
EdgeKeys == {surface_to_surface_key, volume_to_volume_key}

\* Spaces declared by the graph definition, and a name that is no space.
DefSpaces == {"A", "B", "C", "D"}
UnknownSpace == "X"
\* A space no definition declares, named by a transform registered by hand.
NewSpace == "E"
SpaceNames == DefSpaces \cup {UnknownSpace}

\* A density string "<n>k" / "<n>" is the pair of its digits and its suffix.
D32k == [n |-> 32, k |-> TRUE]
D41k == [n |-> 41, k |-> TRUE]
Densities == {D32k, D41k}
Hemispheres == {"left", "right"}
OutDirs == {"out"}

\* Absent result of a lookup (Python None).
None == [kind |-> "None"]

\* str.lower() on the hemisphere strings that occur.
\* (LowerNot is the sensitivity variant that leaves the string as it is.)
LowerNot(h) == h
Lower(h) ==
  CASE h = "LEFT" -> "left"
    [] h = "RIGHT" -> "right"
    [] OTHER -> h

\* hemisphere[0].upper()
HemiInitial(h) == IF Lower(h) = "left" THEN "L" ELSE "R"

\* A density string with a k that is followed by blanks, as " 10k ".
DPad10k == [n |-> 10, k |-> TRUE, pad |-> TRUE]
Padded(d) == "pad" \in DOMAIN d

\* A bare density string "<n>".
D128 == [n |-> 128, k |-> FALSE]

\* The ValueError of int() on a string that is no integer literal.
ValueError == [raised |-> "ValueError"]

\* _get_density_key: int(d.rstrip("kK")) if d.lower().endswith("k"), else
\* int(d).  A string ending with k yields its digits; any other string goes
\* to int() whole, which raises when the string holds a k.
_get_density_key(d) ==
  IF d.k /\ ~Padded(d) THEN d.n
  ELSE IF d.k THEN ValueError
  ELSE d.n

\* The element of a non-empty set of densities that max(key=...) returns
\* (all densities of the model have distinct keys).
MaxDensity(S) == CHOOSE d \in S : \A e \in S : _get_density_key(e) <= _get_density_key(d)

(***************************************************************************)
(* Resource records (graph/models.py).                                     *)
(***************************************************************************)
SurfaceAtlas(space, density, hemisphere, resource_type, file_path) ==
  [space |-> space, density |-> density, hemisphere |-> hemisphere,
   resource_type |-> resource_type, file_path |-> file_path]

SurfaceTransform(source, target, density, hemisphere, resource_type, file_path, weight) ==
  [source_space |-> source, target_space |-> target, density |-> density,
   hemisphere |-> hemisphere, resource_type |-> resource_type,
   file_path |-> file_path, weight |-> weight]

VolumeAtlas(space, resolution, resource_type, file_path) ==
  [space |-> space, resolution |-> resolution, resource_type |-> resource_type,
   file_path |-> file_path]

VolumeTransform(source, target, resolution, resource_type, file_path, weight) ==
  [source_space |-> source, target_space |-> target, resolution |-> resolution,
   resource_type |-> resource_type, file_path |-> file_path, weight |-> weight]

Edge(surface_transforms, volume_transforms) ==
  [surface_transforms |-> surface_transforms, volume_transforms |-> volume_transforms]

(***************************************************************************)
(* GraphCache: four tables keyed by tuples (graph/methods/cache.py).       *)
(* A table is a function whose domain is the set of stored keys.           *)
(***************************************************************************)
EmptyTable == <<>>

SurfaceAtlasKey(a) == <<a.space, a.density, Lower(a.hemisphere), a.resource_type>>
SurfaceTransformKey(t) ==
  <<t.source_space, t.target_space, t.density, Lower(t.hemisphere), t.resource_type>>
VolumeAtlasKey(a) == <<a.space, a.resolution, a.resource_type>>
VolumeTransformKey(t) == <<t.source_space, t.target_space, t.resolution, t.resource_type>>

\* (add_surface_atlas_keep_first is the sensitivity variant in which an
\* existing entry is kept.)
add_surface_atlas_keep_first(table, atlas) == table @@ (SurfaceAtlasKey(atlas) :> atlas)
add_surface_atlas(table, atlas) == (SurfaceAtlasKey(atlas) :> atlas) @@ table
\* (add_surface_transform_keep_first is the sensitivity variant in which an
\* existing entry is kept.)
add_surface_transform_keep_first(table, transform) ==
  table @@ (SurfaceTransformKey(transform) :> transform)
\* (add_surface_transform_alone is the sensitivity variant that forgets the
\* other entries of the table.)
add_surface_transform_alone(table, transform) == (SurfaceTransformKey(transform) :> transform)
add_surface_transform(table, transform) == (SurfaceTransformKey(transform) :> transform) @@ table
add_volume_atlas(table, atlas) == (VolumeAtlasKey(atlas) :> atlas) @@ table
add_volume_transform(table, transform) == (VolumeTransformKey(transform) :> transform) @@ table

Get(table, key) == IF key \in DOMAIN table THEN table[key] ELSE None

get_surface_atlas(table, space, density, hemisphere, resource_type) ==
  Get(table, <<space, density, Lower(hemisphere), resource_type>>)
get_surface_transform(table, source, target, density, hemisphere, resource_type) ==
  Get(table, <<source, target, density, Lower(hemisphere), resource_type>>)
get_volume_atlas(table, space, resolution, resource_type) ==
  Get(table, <<space, resolution, resource_type>>)
get_volume_transform(table, source, target, resolution, resource_type) ==
  Get(table, <<source, target, resolution, resource_type>>)

\* Bulk inserts: the list is inserted element by element, last write wins.
RECURSIVE add_surface_atlases(_, _)
add_surface_atlases(table, atlases) ==
  IF atlases = <<>> THEN table
  ELSE add_surface_atlases(add_surface_atlas(table, Head(atlases)), Tail(atlases))

RECURSIVE add_surface_transforms(_, _)
add_surface_transforms(table, transforms) ==
  IF transforms = <<>> THEN table
  ELSE add_surface_transforms(add_surface_transform(table, Head(transforms)), Tail(transforms))

RECURSIVE add_volume_atlases(_, _)
add_volume_atlases(table, atlases) ==
  IF atlases = <<>> THEN table
  ELSE add_volume_atlases(add_volume_atlas(table, Head(atlases)), Tail(atlases))

RECURSIVE add_volume_transforms(_, _)
add_volume_transforms(table, transforms) ==
  IF transforms = <<>> THEN table
  ELSE add_volume_transforms(add_volume_transform(table, Head(transforms)), Tail(transforms))

Range(s) == {s[i] : i \in DOMAIN s}

(***************************************************************************)
(* GraphFetchers: partial-key searches (graph/methods/fetchers.py).        *)
(***************************************************************************)
fetch_surface_atlases(table, space) ==
  {table[key] : key \in {q \in DOMAIN table : q[1] = space}}

\* fetch_surface_atlases(space, hemisphere=hemisphere): the hemisphere filter
\* compares the key's hemisphere with hemisphere.lower().
fetch_surface_atlases_hemisphere(table, space, hemisphere) ==
  {table[key] : key \in {q \in DOMAIN table : q[1] = space /\ q[3] = Lower(hemisphere)}}

fetch_surface_transforms(table, source, target) ==
  {table[key] : key \in {q \in DOMAIN table : q[1] = source /\ q[2] = target}}

(***************************************************************************)
(* The multigraph (networkx.MultiDiGraph): a graph value is a record of    *)
(* its node set and its keyed edges <<u, v, key>> -> [data, weight].       *)
(***************************************************************************)
Graph(ns, es) == [nodes |-> ns, edges |-> es]

\* MultiDiGraph.add_edge(u, v, key=key, data=data, weight=weight): missing
\* endpoints become nodes; an existing (u, v, key) has its attributes replaced.
\* (add_edge_default_weight is the sensitivity variant that drops the weight.)
add_edge_default_weight(g, u, v, key, data, weight) ==
  Graph(g.nodes \cup {u, v}, (<<u, v, key>> :> [data |-> data, weight |-> 1]) @@ g.edges)
add_edge(g, u, v, key, data, weight) ==
  Graph(g.nodes \cup {u, v},
        (<<u, v, key>> :> [data |-> data, weight |-> weight]) @@ g.edges)

\* _cached_subgraph body: all nodes, only the edges whose key is edge_type.
\* (FilterEdgesKeepsAll is the sensitivity variant that filters nothing.)
FilterEdgesKeepsAll(g, edge_type) == g
FilterEdges(g, edge_type) ==
  Graph(g.nodes,
        [e \in {q \in DOMAIN g.edges : q[3] = edge_type} |-> g.edges[e]])

HasEdge(g, u, v) == \E e \in DOMAIN g.edges : e[1] = u /\ e[2] = v

\* networkx multigraph weight function: the least weight of the parallel edges.
MinWeight(g, u, v) ==
  LET ws == {g.edges[e].weight : e \in {q \in DOMAIN g.edges : q[1] = u /\ q[2] = v}}
  IN CHOOSE w \in ws : \A x \in ws : w <= x

Successors(g, u) == {v \in g.nodes : HasEdge(g, u, v)}

ExtendPaths(g, P) ==
  UNION {{Append(p, v) : v \in Successors(g, p[Len(p)]) \ Range(p)} : p \in P}

RECURSIVE SimplePathsUpTo(_, _, _)
SimplePathsUpTo(g, P, k) ==
  IF k = 0 \/ P = {} THEN P
  ELSE P \cup SimplePathsUpTo(g, ExtendPaths(g, P), k - 1)

\* All simple paths of g that start at source and end at target.
SimplePaths(g, source, target) ==
  {p \in SimplePathsUpTo(g, {<<source>>}, Cardinality(g.nodes)) : p[Len(p)] = target}

RECURSIVE PathCost(_, _)
PathCost(g, p) ==
  IF Len(p) < 2 THEN 0
  ELSE MinWeight(g, p[1], p[2]) + PathCost(g, Tail(p))

\* networkx.shortest_path(g, source, target, weight="weight"): the outcomes
\* it can have.  It raises NodeNotFound when an endpoint is no node of g and
\* NetworkXNoPath when no path exists; among paths of equal least cost the
\* one returned depends on the traversal order, so each of them is possible.
NodeNotFound == [raised |-> "NodeNotFound", path |-> <<>>]
NetworkXNoPath == [raised |-> "NetworkXNoPath", path |-> <<>>]
Returned(p) == [raised |-> "", path |-> p]

shortest_path(g, source, target) ==
  IF source \notin g.nodes \/ target \notin g.nodes THEN {NodeNotFound}
  ELSE LET ps == SimplePaths(g, source, target)
           best == {p \in ps : \A q \in ps : PathCost(g, p) <= PathCost(g, q)}
       IN IF ps = {} THEN {NetworkXNoPath} ELSE {Returned(p) : p \in best}

\* _cached_subgraph under functools.lru_cache, keyed by the graph object and
\* edge_type: the subgraph built at the first call for a class is returned by
\* every later call.  memo is the table class -> cached subgraph.
_cached_subgraph(memo, g, edge_type) ==
  IF edge_type \in DOMAIN memo THEN memo[edge_type] ELSE FilterEdges(g, edge_type)

\* The memo table after get_subgraph(edge_type).
get_subgraph_memo(memo, g, edge_type) ==
  IF edge_type \in DOMAIN memo THEN memo
  ELSE (edge_type :> FilterEdges(g, edge_type)) @@ memo

\* GraphUtils.find_path: the outcomes of find_path(source, target, edge_type);
\* edge_type None (here "") searches the full multigraph.  NetworkXNoPath is
\* caught and becomes the empty list, NodeNotFound propagates.
NoEdgeType == ""
\* (find_path without its `except nx.NetworkXNoPath` handler, a sensitivity
\* variant: the exception reaches the caller.)
find_path_uncaught(memo, g, source, target, edge_type) ==
  LET sub == IF edge_type # NoEdgeType THEN _cached_subgraph(memo, g, edge_type) ELSE g
  IN shortest_path(sub, source, target)
find_path(memo, g, source, target, edge_type) ==
  LET sub == IF edge_type # NoEdgeType THEN _cached_subgraph(memo, g, edge_type) ELSE g
  IN {IF r = NetworkXNoPath THEN Returned(<<>>) ELSE r : r \in shortest_path(sub, source, target)}

(***************************************************************************)
(* GraphBuilder (graph/builder.py).  A definition is the parsed YAML:       *)
(*   nodes: list of [name, species, description, surfaces, volumes]         *)
(*   surface_edges / volume_edges: lists of [from, to, surfaces / volumes]  *)
(* where surfaces is the list of leaves [density, resource_type,            *)
(* hemisphere, path] and volumes the list of leaves [resolution,            *)
(* resource_type, path] of the nested dictionaries, in iteration order.     *)
(***************************************************************************)
\* A file reference: directory and the parts of the file name.
FilePath(dir, source, target, density, hemi, tag) ==
  [dir |-> dir, source |-> source, target |-> target, density |-> density,
   hemi |-> hemi, tag |-> tag]

data_dir == "data"

\* GraphBuilder._resolve_path: data_dir / path.
_resolve_path(path) == [path EXCEPT !.dir = data_dir]

\* The built state: graph, node data and the four cache tables.
\* raised is the exception that ended the build, "" while there is none.
World(g, nd, sa, st, va, vt) ==
  [graph |-> g, node_data |-> nd, surface_atlas |-> sa, surface_transform |-> st,
   volume_atlas |-> va, volume_transform |-> vt, raised |-> ""]

\* The name of a file that is not on disk.
NoSuchFile == "no_such_file"

\* Resource.validate_file_path, run when an atlas or a transform is
\* constructed: the exception it raises, "" when the file exists.
\* (validate_file_path_pass is the sensitivity variant that accepts any path.)
validate_file_path_pass(v) == ""
validate_file_path(v) == IF v.tag = NoSuchFile THEN "FileNotFoundError" ELSE ""

\* The exception of the first resource of the list whose construction fails,
\* "" when each is constructed.
Constructed(resources) ==
  IF \E i \in DOMAIN resources : validate_file_path(resources[i].file_path) # ""
    THEN "FileNotFoundError"
    ELSE ""

EmptyWorld == World(Graph({}, EmptyTable), EmptyTable, EmptyTable, EmptyTable, EmptyTable, EmptyTable)

_parse_surfaces(node_name, surfaces) ==
  [i \in DOMAIN surfaces |->
     SurfaceAtlas(node_name, surfaces[i].density, surfaces[i].hemisphere,
                  surfaces[i].resource_type, _resolve_path(surfaces[i].path))]

_parse_volumes(node_name, volumes) ==
  [i \in DOMAIN volumes |->
     VolumeAtlas(node_name, volumes[i].resolution, volumes[i].resource_type,
                 _resolve_path(volumes[i].path))]

_parse_surface_to_surface_transforms(source, target, surfaces) ==
  [i \in DOMAIN surfaces |->
     SurfaceTransform(source, target, surfaces[i].density, surfaces[i].hemisphere,
                      surfaces[i].resource_type, _resolve_path(surfaces[i].path), 1)]

_parse_volume_to_volume_transforms(source, target, volumes) ==
  [i \in DOMAIN volumes |->
     VolumeTransform(source, target, volumes[i].resolution, volumes[i].resource_type,
                     _resolve_path(volumes[i].path), 1)]

Node(name, species, description, surfaces, volumes) ==
  [name |-> name, species |-> species, description |-> description,
   surfaces |-> surfaces, volumes |-> volumes]

\* One iteration of the loop of _build_nodes.
_build_node(w, entry) ==
  LET surfaces == _parse_surfaces(entry.name, entry.surfaces)
      volumes == _parse_volumes(entry.name, entry.volumes)
      node_obj == Node(entry.name, entry.species, entry.description, surfaces, volumes)
  IN IF Constructed(surfaces) # "" THEN [w EXCEPT !.raised = Constructed(surfaces)]
     ELSE IF Constructed(volumes) # "" THEN [w EXCEPT !.raised = Constructed(volumes)]
     ELSE World(Graph(w.graph.nodes \cup {entry.name}, w.graph.edges),
                (entry.name :> node_obj) @@ w.node_data,
                add_surface_atlases(w.surface_atlas, surfaces),
                w.surface_transform,
                add_volume_atlases(w.volume_atlas, volumes),
                w.volume_transform)

RECURSIVE _build_nodes(_, _)
_build_nodes(w, nodes_list) ==
  IF nodes_list = <<>> \/ w.raised # "" THEN w
  ELSE _build_nodes(_build_node(w, Head(nodes_list)), Tail(nodes_list))

\* (_build_surface_edge_resets is the sensitivity variant that keeps only
\* the transforms of the edge entry built last.)
_build_surface_edge_resets(w, edge_data) ==
  LET transforms == _parse_surface_to_surface_transforms(edge_data.from, edge_data.to,
                                                         edge_data.surfaces)
  IN IF Constructed(transforms) # "" THEN [w EXCEPT !.raised = Constructed(transforms)]
     ELSE [w EXCEPT !.graph = add_edge(w.graph, edge_data.from, edge_data.to,
                                       surface_to_surface_key, Edge(transforms, <<>>), 1),
                    !.surface_transform = add_surface_transforms(EmptyTable, transforms)]
_build_surface_edge(w, edge_data) ==
  LET transforms == _parse_surface_to_surface_transforms(edge_data.from, edge_data.to,
                                                         edge_data.surfaces)
      edge_obj == Edge(transforms, <<>>)
  IN IF Constructed(transforms) # "" THEN [w EXCEPT !.raised = Constructed(transforms)]
     ELSE [w EXCEPT !.graph = add_edge(w.graph, edge_data.from, edge_data.to,
                                       surface_to_surface_key, edge_obj, 1),
                    !.surface_transform = add_surface_transforms(w.surface_transform,
                                                                 transforms)]

_build_volume_edge(w, edge_data) ==
  LET transforms == _parse_volume_to_volume_transforms(edge_data.from, edge_data.to,
                                                       edge_data.volumes)
      edge_obj == Edge(<<>>, transforms)
  IN IF Constructed(transforms) # "" THEN [w EXCEPT !.raised = Constructed(transforms)]
     ELSE [w EXCEPT !.graph = add_edge(w.graph, edge_data.from, edge_data.to,
                                       volume_to_volume_key, edge_obj, 1),
                    !.volume_transform = add_volume_transforms(w.volume_transform,
                                                               transforms)]

RECURSIVE _build_surface_edges(_, _)
_build_surface_edges(w, es) ==
  IF es = <<>> \/ w.raised # "" THEN w
  ELSE _build_surface_edges(_build_surface_edge(w, Head(es)), Tail(es))

RECURSIVE _build_volume_edges(_, _)
_build_volume_edges(w, es) ==
  IF es = <<>> \/ w.raised # "" THEN w
  ELSE _build_volume_edges(_build_volume_edge(w, Head(es)), Tail(es))

_build_edges(w, def) ==
  _build_volume_edges(_build_surface_edges(w, def.surface_edges), def.volume_edges)

build_from_dict(w, def) == _build_edges(_build_nodes(w, def.nodes), def)

(***************************************************************************)
(* The graph definitions the model is built from: the chain of surface     *)
(* edges A -> B -> C -> D with varying atlases on the intermediate spaces, *)
(* varying transform sets on the edges, and an optional volume edge        *)
(* between the ends of the chain.                                          *)
(***************************************************************************)
SurfaceLeaf(source, target, density, resource_type, hemisphere) ==
  [density |-> density, resource_type |-> resource_type, hemisphere |-> hemisphere,
   path |-> FilePath(".", source, target, density, hemisphere, resource_type)]

VolumeLeaf(source, target, resolution, resource_type) ==
  [resolution |-> resolution, resource_type |-> resource_type,
   path |-> FilePath(".", source, target, resolution, "", resource_type)]

AtlasOptions == {"s32L", "s32L_m41L", "s41R", "s32L_s41L"}

NodeSurfaces(n, opt) ==
  CASE opt = "s32L" -> <<SurfaceLeaf(n, "", D32k, "sphere", "left")>>
    [] opt = "s32L_m41L" -> <<SurfaceLeaf(n, "", D32k, "sphere", "left"),
                              SurfaceLeaf(n, "", D41k, "midthickness", "left")>>
    [] opt = "s41R" -> <<SurfaceLeaf(n, "", D41k, "sphere", "right")>>
    [] opt = "s32L_s41L" -> <<SurfaceLeaf(n, "", D32k, "sphere", "left"),
                              SurfaceLeaf(n, "", D41k, "sphere", "left")>>

TransformOptions == {"s32L", "s32L_s41R", "s32L_s41L"}
\* The atlases of B with the transforms of B -> C, and the atlases of C with
\* the transforms of C -> D: the pairs that make a composition step succeed
\* at the requested or at another density, or fail for want of a common
\* density, of a sphere atlas or of a transform.
MidOptions ==
  {<<"s32L", "s32L_s41R">>, <<"s32L_s41L", "s32L_s41L">>, <<"s32L_m41L", "s32L_s41L">>,
   <<"s32L_s41L", "s32L_s41R">>, <<"s41R", "s32L_s41R">>}
LastOptions == {<<"s32L", "s32L">>, <<"s41R", "s32L_s41R">>, <<"s41R", "s32L">>}

EdgeSurfaces(u, v, opt) ==
  CASE opt = "s32L" -> <<SurfaceLeaf(u, v, D32k, "sphere", "left")>>
    [] opt = "s32L_s41R" -> <<SurfaceLeaf(u, v, D32k, "sphere", "left"),
                              SurfaceLeaf(u, v, D41k, "sphere", "right")>>
    [] opt = "s32L_s41L" -> <<SurfaceLeaf(u, v, D32k, "sphere", "left"),
                              SurfaceLeaf(u, v, D41k, "sphere", "left")>>

VolumeOptions == {"D_to_A"}

Res1mm == [n |-> 1, unit |-> "mm"]

VolumeEdges(opt) ==
  CASE opt = "none" -> <<>>
    [] opt = "A_to_D" -> <<[from |-> "A", to |-> "D",
                            volumes |-> <<VolumeLeaf("A", "D", Res1mm, "T1w")>>]>>
    [] opt = "D_to_A" -> <<[from |-> "D", to |-> "A",
                            volumes |-> <<VolumeLeaf("D", "A", Res1mm, "T1w")>>]>>

NodeEntry(n, opt) ==
  [name |-> n, species |-> "", description |-> "",
   surfaces |-> NodeSurfaces(n, opt),
   volumes |-> <<VolumeLeaf(n, "", Res1mm, "T1w")>>]

SurfaceEdgeEntry(u, v, opt) == [from |-> u, to |-> v, surfaces |-> EdgeSurfaces(u, v, opt)]

Definition(aB, aC, tBC, tCD, vol) ==
  [nodes |-> <<NodeEntry("A", "s32L"), NodeEntry("B", aB),
               NodeEntry("C", aC), NodeEntry("D", "s32L")>>,
   surface_edges |-> <<SurfaceEdgeEntry("A", "B", "s32L_s41R"),
                       SurfaceEdgeEntry("B", "C", tBC),
                       SurfaceEdgeEntry("C", "D", tCD)>>,
   volume_edges |-> VolumeEdges(vol)]

Definitions ==
  {Definition(mid[1], last[1], mid[2], last[2], vol) :
     mid \in MidOptions, last \in LastOptions, vol \in VolumeOptions}

(***************************************************************************)
(* State.                                                                  *)
(***************************************************************************)
VARIABLES
  graph,             \* the NeuromapsGraph multigraph: nodes and keyed edges
  node_data,         \* the "data" attribute (Node) of the nodes that have one
  surface_atlas,     \* GraphCache.surface_atlas
  surface_transform, \* GraphCache.surface_transform
  volume_atlas,      \* GraphCache.volume_atlas
  volume_transform,  \* GraphCache.volume_transform
  subgraph_memo,     \* the lru_cache of _cached_subgraph: class -> subgraph
  call,              \* the _resolve_sphere_transform call in progress: its
                     \* arguments and locals, and a record of what it did
                     \* (find_path_calls, ext_calls: the external invocations,
                     \* derived: the transforms it built, repeat: an earlier
                     \* call with these arguments composed and registered,
                     \* store0/graph0: the store and graph it started from)
  composed,          \* (source, target, density, hemisphere) -> artifact of the
                     \* first successful registering multi-hop resolve
  nadds,             \* add_transform calls made
  query              \* the helper call last made by a caller of GraphUtils or
                     \* GraphCache: [op, args, result]

vars == <<graph, node_data, surface_atlas, surface_transform, volume_atlas,
          volume_transform, subgraph_memo, call, composed, nadds, query>>

cache_vars == <<surface_atlas, surface_transform, volume_atlas, volume_transform>>

NoQuery == [op |-> "", args |-> <<>>, result |-> None]

IdleCall ==
  [pc |-> "idle", source |-> "", target |-> "", density |-> D32k, hemisphere |-> "",
   add_edge |-> FALSE, outdir |-> "", path |-> <<>>, hop_idx |-> 0,
   current_transform |-> None, outcome |-> "", result |-> None,
   find_path_calls |-> 0, ext_calls |-> <<>>, derived |-> <<>>, repeat |-> FALSE,
   store0 |-> EmptyTable, graph0 |-> Graph({}, EmptyTable)]

Init ==
  \E def \in Definitions :
    LET w == build_from_dict(EmptyWorld, def)
    IN /\ graph = w.graph
       /\ node_data = w.node_data
       /\ surface_atlas = w.surface_atlas
       /\ surface_transform = w.surface_transform
       /\ volume_atlas = w.volume_atlas
       /\ volume_transform = w.volume_transform
       /\ subgraph_memo = EmptyTable
       /\ call = IdleCall
       /\ composed = EmptyTable
       /\ nadds = 0
       /\ query = NoQuery

(***************************************************************************)
(* Density helpers (GraphUtils).                                           *)
(***************************************************************************)
CommonDensities(sa, st, mid_space, target_space) ==
  {a.density : a \in fetch_surface_atlases(sa, mid_space)}
    \cap {t.density : t \in fetch_surface_transforms(st, mid_space, target_space)}

\* find_common_density: the density returned, or None when ValueError is raised.
find_common_density(sa, st, mid_space, target_space) ==
  LET common == CommonDensities(sa, st, mid_space, target_space)
  IN IF common = {} THEN None ELSE MaxDensity(common)

\* find_highest_density: the density returned, or None when ValueError is
\* raised because the space has no surface atlas.
find_highest_density(sa, space) ==
  LET densities == {a.density : a \in fetch_surface_atlases(sa, space)}
  IN IF densities = {} THEN None ELSE MaxDensity(densities)

(***************************************************************************)
(* SurfaceTransformOps (graph/transforms/surface.py).                      *)
(***************************************************************************)
\* Python list indexing, 0-based.
At(path, i) == path[i + 1]

_hop_output_path(outdir, source, next_target, density, hemisphere) ==
  FilePath(outdir, source, next_target, density, HemiInitial(hemisphere), "sphere.surf.gii")

\* The effect of `if add_edge:` at the end of _compose_next_hop on the cache
\* table and on the graph: the new transform goes to the cache only.
\* (Sensitivity variant: a registration that stores nothing.)
\* (RegisterComposedAlone is the sensitivity variant that forgets the rest
\* of the table.)
RegisterComposedAlone(st, new_transform) == (SurfaceTransformKey(new_transform) :> new_transform)
RegisterComposedNowhere(st, new_transform) == st
RegisterComposed(st, new_transform) == add_surface_transform(st, new_transform)
\* (RegisterComposedGraphDefaultWeight is the sensitivity variant that adds
\* the derived transform as an edge of the default weight.)
RegisterComposedGraphDefaultWeight(g, new_transform) ==
  add_edge(g, new_transform.source_space, new_transform.target_space,
           surface_to_surface_key, Edge(<<new_transform>>, <<>>), 1)
RegisterComposedGraph(g, new_transform) == g

\* `if source == target` of _resolve_sphere_transform.
\* (SameSpaceNever is the sensitivity variant without the test.)
SameSpaceNever(source, target) == FALSE
SameSpace(source, target) == source = target

\* The single-hop branch: the cache lookup is returned as it is.
\* (DirectHopRaises is the sensitivity variant that raises on a missing entry.)
DirectHopRaises(st, source, target, density, hemisphere) ==
  LET t == get_surface_transform(st, source, target, density, hemisphere, "sphere")
  IN  [outcome |-> IF t = None THEN "NoTransform" ELSE "DirectHop", result |-> t]
DirectHop(st, source, target, density, hemisphere) ==
  [outcome |-> "DirectHop",
   result |-> get_surface_transform(st, source, target, density, hemisphere, "sphere")]

\* The SurfaceTransform built by _compose_next_hop.
\* (ComposedTransformDefaultWeight is the sensitivity variant that leaves the
\* weight at its default of 1.0.)
ComposedTransformDefaultWeight(source, next_space, density, hemisphere, composed_path, hop_idx) ==
  SurfaceTransform(source, next_space, density, hemisphere, "sphere", composed_path, 1)
ComposedTransform(source, next_space, density, hemisphere, composed_path, hop_idx) ==
  SurfaceTransform(source, next_space, density, hemisphere, "sphere", composed_path, hop_idx)

\* `current_transform = self._compose_next_hop(...)` in the loop of
\* _compose_multihop.
\* (AccumulateKeepsFirst is the sensitivity variant that drops the new transform.)
AccumulateKeepsFirst(current_transform, new_transform) == current_transform
Accumulate(current_transform, new_transform) == new_transform

\* `for hop_idx, next_space in enumerate(path[2:], start=2)`: the index of the
\* iteration after hop_idx.
\* (NextHopIndexRetry is the sensitivity variant that repeats the hop.)
\* The density at which _two_hops looks up the sphere atlas of mid_space and
\* the transform mid_space -> target_space; density is the caller's.
\* (HopDensityOfCaller is the sensitivity variant that uses the caller's.)
HopDensityOfCaller(sa, st, mid_space, target_space, density) == density
HopDensity(sa, st, mid_space, target_space, density) ==
  find_common_density(sa, st, mid_space, target_space)

NextHopIndexRetry(hop_idx) == hop_idx
NextHopIndex(hop_idx) == hop_idx + 1

ComposedKey(source, target, density, hemisphere) ==
  <<source, target, density, Lower(hemisphere)>>

Finished(c, outcome, result) ==
  [c EXCEPT !.pc = "returned", !.outcome = outcome, !.result = result]

\* _resolve_sphere_transform up to the first composition step: the same-space
\* check, path finding, the direct hop, and the first fetch of
\* _compose_multihop.
ResolveStart(source, target, density, hemisphere, add_edge_flag, outdir) ==
  /\ call.pc = "idle"
  /\ UNCHANGED <<graph, node_data, cache_vars, composed, nadds, query>>
  /\ LET c0 == [IdleCall EXCEPT !.source = source, !.target = target,
                                !.density = density, !.hemisphere = hemisphere,
                                !.add_edge = add_edge_flag, !.outdir = outdir,
                                !.store0 = surface_transform, !.graph0 = graph,
                                !.repeat = ComposedKey(source, target, density, hemisphere)
                                             \in DOMAIN composed]
     IN IF SameSpace(source, target)
        THEN /\ call' = Finished(c0, "SameSpace", None)
             /\ UNCHANGED subgraph_memo
        ELSE /\ subgraph_memo' = get_subgraph_memo(subgraph_memo, graph, surface_to_surface_key)
             /\ \E r \in find_path(subgraph_memo, graph, source, target, surface_to_surface_key) :
                  LET c1 == [c0 EXCEPT !.find_path_calls = 1, !.path = r.path]
                      first == get_surface_transform(surface_transform, At(r.path, 0),
                                                     At(r.path, 1), density, hemisphere, "sphere")
                  IN call' =
                       IF r.raised # "" THEN Finished(c1, r.raised, None)
                       ELSE IF Len(r.path) < 2 THEN Finished(c1, "NoPath", None)
                       ELSE IF Len(r.path) = 2
                         THEN LET d == DirectHop(surface_transform, source, target,
                                                 density, hemisphere)
                              IN Finished(c1, d.outcome, d.result)
                       ELSE IF first = None THEN Finished(c1, "NoTransform", None)
                       ELSE [c1 EXCEPT !.pc = "composing", !.hop_idx = 2,
                                       !.current_transform = first]

\* One iteration of the loop of _compose_multihop: _compose_next_hop with its
\* call of _two_hops and the external project-unproject operation, which
\* either produces its output (ok) or raises.
ComposeNextHop(ok) ==
  /\ call.pc = "composing"
  /\ UNCHANGED <<node_data, surface_atlas, volume_atlas, volume_transform,
                 subgraph_memo, nadds, query>>
  /\ LET path == call.path
         hop_idx == call.hop_idx
         next_space == At(path, hop_idx)
         mid_space == At(path, hop_idx - 1)
         hop_output == _hop_output_path(call.outdir, call.source, next_space,
                                        call.density, call.hemisphere)
         sphere_in == call.current_transform.file_path
         common_density == HopDensity(surface_atlas, surface_transform,
                                      mid_space, next_space, call.density)
         mid_atlas == get_surface_atlas(surface_atlas, mid_space, common_density,
                                        call.hemisphere, "sphere")
         unproject_transform == get_surface_transform(surface_transform, mid_space, next_space,
                                                      common_density, call.hemisphere, "sphere")
         invocation == [hop_idx |-> hop_idx, sphere_in |-> sphere_in,
                        sphere_project_to |-> mid_atlas.file_path,
                        sphere_unproject_from |-> unproject_transform.file_path,
                        sphere_out |-> hop_output]
         new_transform == ComposedTransform(call.source, next_space, call.density,
                                            call.hemisphere, hop_output, hop_idx)
         invoked == [call EXCEPT !.ext_calls = Append(@, invocation)]
         accumulated == [invoked EXCEPT
                           !.current_transform = Accumulate(@, new_transform),
                           !.derived = Append(@, new_transform)]
         key == ComposedKey(call.source, call.target, call.density, call.hemisphere)
     IN IF common_density = None
          THEN /\ call' = Finished(call, "NoCommonDensity", None)
               /\ UNCHANGED <<graph, surface_transform, composed>>
        ELSE IF mid_atlas = None
          THEN /\ call' = Finished(call, "NoAtlas", None)
               /\ UNCHANGED <<graph, surface_transform, composed>>
        ELSE IF unproject_transform = None
          THEN /\ call' = Finished(call, "NoTransform", None)
               /\ UNCHANGED <<graph, surface_transform, composed>>
        ELSE IF ~ok
          THEN /\ call' = Finished(invoked, "ExternalOperationFailed", None)
               /\ UNCHANGED <<graph, surface_transform, composed>>
        ELSE /\ surface_transform' =
                  IF call.add_edge THEN RegisterComposed(surface_transform, new_transform)
                  ELSE surface_transform
             /\ graph' = IF call.add_edge THEN RegisterComposedGraph(graph, new_transform)
                         ELSE graph
             /\ IF hop_idx = Len(path) - 1
                  THEN /\ call' = Finished(accumulated, "Resolved",
                                           accumulated.current_transform)
                       /\ composed' =
                            IF call.add_edge /\ key \notin DOMAIN composed
                              THEN (key :> accumulated.current_transform.file_path) @@ composed
                              ELSE composed
                  ELSE /\ call' = [accumulated EXCEPT !.hop_idx = NextHopIndex(hop_idx)]
                       /\ UNCHANGED composed

\* The call returns (or its exception reaches the caller).
Return ==
  /\ call.pc = "returned"
  /\ call' = IdleCall
  /\ UNCHANGED <<graph, node_data, cache_vars, subgraph_memo, composed, nadds, query>>

(***************************************************************************)
(* NeuromapsGraph.add_transform and NeuromapsGraph.find_path                *)
(* (graph/core.py).                                                        *)
(***************************************************************************)
IsSurfaceTransform(t) == "density" \in DOMAIN t
IsVolumeTransform(t) == "resolution" \in DOMAIN t

\* The transforms a caller registers by hand: a surface transform A -> C of
\* the default weight 1.0 or, standing for a composition of two hops made
\* beforehand, of weight 2.0; and a volume transform into a space that the
\* definition does not declare.
UserWeights == {1, 2}
UserSurfaceTransforms ==
  {SurfaceTransform("A", "C", D32k, "left", "sphere",
                    FilePath("user", "A", "C", D32k, "left", "sphere"), w) :
     w \in UserWeights}

UserVolumeTransforms ==
  {VolumeTransform(p[1], p[2], Res1mm, "T1w",
                   FilePath("user", p[1], p[2], Res1mm, "", "T1w"), 1) :
     p \in {<<"A", NewSpace>>}}

\* The (transform, key) arguments of the add_transform calls: each transform
\* under the key of its class, and the surface transform of default weight
\* also under the other key (the key is not checked against the transform).
Registrations ==
  {<<t, surface_to_surface_key>> : t \in UserSurfaceTransforms}
    \cup {<<t, volume_to_volume_key>> : t \in UserVolumeTransforms}
    \cup {<<t, volume_to_volume_key>> : t \in {u \in UserSurfaceTransforms : u.weight = 1}}

add_transform(transform, key) ==
  /\ call.pc = "idle"
  /\ nadds < MaxAdds
  /\ nadds' = nadds + 1
  /\ IF IsSurfaceTransform(transform)
       THEN /\ surface_transform' = add_surface_transform(surface_transform, transform)
            /\ graph' = add_edge(graph, transform.source_space, transform.target_space, key,
                                 Edge(<<transform>>, <<>>), transform.weight)
            /\ UNCHANGED volume_transform
       ELSE /\ volume_transform' = add_volume_transform(volume_transform, transform)
            /\ graph' = add_edge(graph, transform.source_space, transform.target_space, key,
                                 Edge(<<>>, <<transform>>), transform.weight)
            /\ UNCHANGED surface_transform
  /\ UNCHANGED <<node_data, surface_atlas, volume_atlas, subgraph_memo, call, composed, query>>

\* A caller's find_path(source, target, edge_type) with a class: its only
\* effect on the state is the memoised subgraph of that class.
FindPath(source, target, edge_type) ==
  /\ call.pc = "idle"
  /\ edge_type \notin DOMAIN subgraph_memo
  /\ subgraph_memo' = get_subgraph_memo(subgraph_memo, graph, edge_type)
  /\ UNCHANGED <<graph, node_data, cache_vars, call, composed, nadds, query>>

\* The (source, target) arguments of the resolve calls.
ResolvePairs ==
  {<<"A", "B">>, <<"A", "C">>, <<"A", "D">>, <<"B", "D">>, <<"D", "A">>,
   <<"A", "A">>, <<UnknownSpace, UnknownSpace>>, <<UnknownSpace, "A">>}

\* The pairs for which _resolve_sphere_transform returns or raises at the
\* same-space check or at find_path, before it reads the density, the
\* hemisphere or add_edge: no route leads out of D or out of a name that is
\* no space in any definition.
UnroutedPairs ==
  {<<"D", "A">>, <<"A", "A">>, <<UnknownSpace, UnknownSpace>>, <<UnknownSpace, "A">>}

\* The arguments of the resolve calls: every density, hemisphere and add_edge
\* for the pairs that may have a route, one choice of them for the others.
ResolveArgs ==
  {<<p, density, hemisphere, add_edge_flag>> :
     p \in ResolvePairs \ UnroutedPairs, density \in Densities,
     hemisphere \in Hemispheres, add_edge_flag \in BOOLEAN}
    \cup {<<p, D32k, "left", TRUE>> : p \in UnroutedPairs}

Next ==
  \/ \E a \in ResolveArgs, outdir \in OutDirs :
       ResolveStart(a[1][1], a[1][2], a[2], a[3], a[4], outdir)
  \/ \E ok \in BOOLEAN : ComposeNextHop(ok)
  \/ Return
  \/ \E r \in Registrations : add_transform(r[1], r[2])
  \/ \E p \in ResolvePairs, edge_type \in EdgeKeys :
       FindPath(p[1], p[2], edge_type)

Spec == Init /\ [][Next]_vars

\* The loop of _compose_multihop runs its next iteration: the program is
\* sequential and the external operation is a blocking call that returns or
\* raises.
ComposeStep == \E ok \in BOOLEAN : ComposeNextHop(ok)

\* The resolve calls alone, one after the other.
ResolveNext ==
  \/ \E a \in ResolveArgs, outdir \in OutDirs :
       ResolveStart(a[1][1], a[1][2], a[2], a[3], a[4], outdir)
  \/ ComposeStep
  \/ Return

FairSpec == Init /\ [][ResolveNext]_vars /\ WF_vars(ComposeStep)

(***************************************************************************)
(* The density helpers on built stores.  A definition declares a space Y   *)
(* with surface atlases at a set of densities, a space Z and the edges     *)
(* Y -> Z with surface transforms at a set of densities; it may repeat the *)
(* entries of Y and of the edges with other files.                         *)
(***************************************************************************)
StoreDensities == {D32k, D41k, D128}
StoreSpaces == {"Y", "Z", UnknownSpace}

\* The items of a dictionary in some iteration order.
RECURSIVE SetToSeq(_)
SetToSeq(S) ==
  IF S = {} THEN <<>>
  ELSE LET x == CHOOSE y \in S : TRUE IN <<x>> \o SetToSeq(S \ {x})

\* The atlas of Y at 41k is the right midthickness, the others are left
\* spheres; the transforms are left spheres.
StoreAtlasLeaf(d) ==
  IF d = D41k THEN SurfaceLeaf("Y", "", d, "midthickness", "right")
  ELSE SurfaceLeaf("Y", "", d, "sphere", "left")
StoreTransformLeaf(d) == SurfaceLeaf("Y", "Z", d, "sphere", "left")

\* The same leaf naming another file.
OtherFile(leaf) == [leaf EXCEPT !.path.tag = "bis"]
OtherFiles(leaves) == [i \in DOMAIN leaves |-> OtherFile(leaves[i])]

StoreNodeEntry(n, surfaces, volumes) ==
  [name |-> n, species |-> "", description |-> "", surfaces |-> surfaces, volumes |-> volumes]

StoreDefinition(atlas_densities, transform_densities, repeated) ==
  LET surfaces == SetToSeq({StoreAtlasLeaf(d) : d \in atlas_densities})
      volumes == <<VolumeLeaf("Y", "", Res1mm, "T1w")>>
      transforms == SetToSeq({StoreTransformLeaf(d) : d \in transform_densities})
      warps == <<VolumeLeaf("Y", "Z", Res1mm, "T1w")>>
  IN [nodes |-> <<StoreNodeEntry("Y", surfaces, volumes), StoreNodeEntry("Z", <<>>, <<>>)>>
                  \o (IF repeated
                        THEN <<StoreNodeEntry("Y", OtherFiles(surfaces), OtherFiles(volumes))>>
                        ELSE <<>>),
      surface_edges |-> <<[from |-> "Y", to |-> "Z", surfaces |-> transforms]>>
                  \o (IF repeated
                        THEN <<[from |-> "Y", to |-> "Z", surfaces |-> OtherFiles(transforms)]>>
                        ELSE <<>>),
      volume_edges |-> <<[from |-> "Y", to |-> "Z", volumes |-> warps]>>
                  \o (IF repeated
                        THEN <<[from |-> "Y", to |-> "Z", volumes |-> OtherFiles(warps)]>>
                        ELSE <<>>)]

StoreDefinitions ==
  {StoreDefinition(a, t, r) :
     a \in SUBSET StoreDensities, t \in SUBSET StoreDensities, r \in BOOLEAN}

\* The state after NeuromapsGraph is constructed from a definition; query
\* remembers the definition that was built.
StoreInit ==
  \E def \in StoreDefinitions :
    LET w == build_from_dict(EmptyWorld, def)
    IN /\ graph = w.graph
       /\ node_data = w.node_data
       /\ surface_atlas = w.surface_atlas
       /\ surface_transform = w.surface_transform
       /\ volume_atlas = w.volume_atlas
       /\ volume_transform = w.volume_transform
       /\ subgraph_memo = EmptyTable
       /\ call = IdleCall
       /\ composed = EmptyTable
       /\ nadds = 0
       /\ query = [op |-> "build_from_dict", args |-> <<def>>, result |-> None]

store_vars == <<graph, node_data, surface_atlas, surface_transform, volume_atlas,
                volume_transform, subgraph_memo, call, composed, nadds>>

\* A caller's find_common_density(mid_space, target_space).
FindCommonDensity(mid_space, target_space) ==
  /\ query' = [op |-> "find_common_density", args |-> <<mid_space, target_space>>,
               result |-> find_common_density(surface_atlas, surface_transform,
                                              mid_space, target_space)]
  /\ UNCHANGED store_vars

\* A caller's find_highest_density(space).
FindHighestDensity(space) ==
  /\ query' = [op |-> "find_highest_density", args |-> <<space>>,
               result |-> find_highest_density(surface_atlas, space)]
  /\ UNCHANGED store_vars

\* A call of _get_density_key(d).
DensityKey(d) ==
  /\ query' = [op |-> "_get_density_key", args |-> <<d>>, result |-> _get_density_key(d)]
  /\ UNCHANGED store_vars

StoreNext ==
  \/ \E mid_space \in StoreSpaces, target_space \in StoreSpaces :
       FindCommonDensity(mid_space, target_space)
  \/ \E space \in StoreSpaces : FindHighestDensity(space)
  \/ \E d \in StoreDensities \cup {DPad10k} : DensityKey(d)

StoreSpec == StoreInit /\ [][StoreNext]_vars

(***************************************************************************)
(* The transformers (graph/core.py, graph/transforms/volume.py and         *)
(* graph/transforms/surface.py) on a graph A -> B -> C that has surface    *)
(* and volume edges along the chain.  query is the transformer call last   *)
(* made or in progress: its arguments, its stage, its outcome and the log  *)
(* of the lookups and external operations it made, in order.               *)
(***************************************************************************)
\* Input artifacts: a file that exists or not, of a kind told by its
\* extension; a surface file has a vertex count that gives a density.
VolumeFile == [exists |-> TRUE, kind |-> "volume", name |-> "in.nii.gz"]
SurfaceFile == [exists |-> TRUE, kind |-> "surface", name |-> "in.func.gii", density |-> D32k]
MissingFile == [exists |-> FALSE, kind |-> "volume", name |-> "invalid.nii.gz"]

\* validate_volume_file and validate_surface_file: the error raised, "" if none.
validate_file(input_file, kind) ==
  IF ~input_file.exists THEN "MissingInputArtifact"
  ELSE IF input_file.kind # kind THEN "ValueError"
  ELSE ""

\* GraphUtils.validate_spaces: the error raised (a ValueError that names the
\* source or the target space), "" if none.
\* (validate_spaces_target_first is the sensitivity variant that tests the
\* target before the source.)
validate_spaces_target_first(g, source, target) ==
  IF target \notin g.nodes THEN "UnknownTargetSpace"
  ELSE IF source \notin g.nodes THEN "UnknownSourceSpace"
  ELSE ""
validate_spaces(g, source, target) ==
  IF source \notin g.nodes THEN "UnknownSourceSpace"
  ELSE IF target \notin g.nodes THEN "UnknownTargetSpace"
  ELSE ""

\* estimate_surface_density(input_file).
estimate_surface_density(input_file) == input_file.density

\* Entries of the log of a transformer call.
Fetched(what, args, found) == [ev |-> "fetch", what |-> what, args |-> args, found |-> found # None]
Invoked(name, args) == [ev |-> "external", name |-> name, args |-> args]

Res2mm == [n |-> 2, unit |-> "mm"]

\* The value a transformer returns: the path of the artifact it wrote.
Written(output_file_path) == [written |-> output_file_path]

\* VolumeTransformOps.transform_volume: the outcome, the value returned and
\* the log.  (transform_volume_unchecked is the sensitivity variant that
\* warps whatever the lookups return.)
transform_volume_unchecked(g, va, vt, input_file, source_space, target_space, resolution, resource_type, output_file_path) ==
  LET target_atlas == get_volume_atlas(va, target_space, resolution, resource_type)
  IN [outcome |-> "Warped", result |-> Written(output_file_path),
      log |-> <<Invoked("vol_to_vol", <<input_file, target_atlas, output_file_path>>)>>]
transform_volume(g, va, vt, input_file, source_space, target_space, resolution, resource_type, output_file_path) ==
  LET transform == get_volume_transform(vt, source_space, target_space, resolution,
                                        resource_type)
      target_atlas == get_volume_atlas(va, target_space, resolution, resource_type)
      fetch1 == Fetched("volume_transform",
                        <<source_space, target_space, resolution, resource_type>>, transform)
      fetch2 == Fetched("volume_atlas", <<target_space, resolution, resource_type>>,
                        target_atlas)
      Raised(error, log) == [outcome |-> error, result |-> None, log |-> log]
  IN IF validate_spaces(g, source_space, target_space) # ""
       THEN Raised(validate_spaces(g, source_space, target_space), <<>>)
     ELSE IF validate_file(input_file, "volume") # ""
       THEN Raised(validate_file(input_file, "volume"), <<>>)
     ELSE IF transform = None THEN Raised("NoTransform", <<fetch1>>)
     ELSE IF target_atlas = None THEN Raised("NoAtlas", <<fetch1, fetch2>>)
     ELSE [outcome |-> "Warped", result |-> Written(output_file_path),
           log |-> <<fetch1, fetch2,
                     Invoked("vol_to_vol",
                             <<input_file, target_atlas.file_path, output_file_path>>)>>]

\* The arguments of a surface_to_surface_transformer or
\* volume_to_surface_transformer call; a density argument may be None.
TransformerArgs(transformer_type, input_file, source_space, target_space, hemisphere, source_density, target_density, area_resource, add_edge_flag) ==
  [transformer_type |-> transformer_type, input_file |-> input_file,
   source_space |-> source_space, target_space |-> target_space,
   hemisphere |-> hemisphere, output_file_path |-> "out",
   source_density |-> source_density, target_density |-> target_density,
   area_resource |-> area_resource, add_edge |-> add_edge_flag]

\* `x or default` on an optional density.
OrElse(x, default) == IF x = None THEN default ELSE x

\* _require_surface_atlas: the lookup and its log entry.
_require_surface_atlas(sa, space, density, hemisphere, resource_type) ==
  LET atlas == get_surface_atlas(sa, space, density, hemisphere, resource_type)
  IN [atlas |-> atlas,
      log |-> <<Fetched("surface_atlas", <<space, density, hemisphere, resource_type>>, atlas)>>]

\* SurfaceTransformOps.transform up to the call of _resolve_sphere_transform:
\* the error raised ("" if none) and the source density it resolves with.
surface_transform_begin(g, args) ==
  LET Raised(error) == [outcome |-> error, source_density |-> args.source_density]
  IN IF args.transformer_type \notin {"metric", "label"} THEN Raised("InvalidTransformerKind")
     ELSE IF validate_file(args.input_file, "surface") # ""
       THEN Raised(validate_file(args.input_file, "surface"))
     ELSE IF validate_spaces(g, args.source_space, args.target_space) # ""
       THEN Raised(validate_spaces(g, args.source_space, args.target_space))
     ELSE [outcome |-> "",
           source_density |-> OrElse(args.source_density,
                                     estimate_surface_density(args.input_file))]

\* SurfaceTransformOps.transform after _resolve_sphere_transform returned
\* sphere_transform: the outcome, the value returned and the log.
\* (surface_transform_end_always is the sensitivity variant without the
\* test `if sphere_transform is None`.)
surface_transform_end_core(sa, args, source_density, sphere_transform) ==
  LET highest == find_highest_density(sa, args.target_space)
      lookup == IF args.target_density = None
                  THEN <<Fetched("highest_density", <<args.target_space>>, highest)>>
                  ELSE <<>>
      target_density == OrElse(args.target_density, highest)
      new_sphere == _require_surface_atlas(sa, args.target_space, target_density,
                                           args.hemisphere, "sphere")
      current_area == _require_surface_atlas(sa, args.source_space, source_density,
                                             args.hemisphere, args.area_resource)
      new_area == _require_surface_atlas(sa, args.target_space, target_density,
                                         args.hemisphere, args.area_resource)
      Raised(error, log) == [outcome |-> error, result |-> None, log |-> log]
  IN IF target_density = None THEN Raised("NoAtlasesFound", lookup)
     ELSE IF new_sphere.atlas = None THEN Raised("NoAtlas", lookup \o new_sphere.log)
     ELSE IF current_area.atlas = None
       THEN Raised("NoAtlas", lookup \o new_sphere.log \o current_area.log)
     ELSE IF new_area.atlas = None
       THEN Raised("NoAtlas", lookup \o new_sphere.log \o current_area.log \o new_area.log)
     ELSE [outcome |-> "Resampled", result |-> Written(args.output_file_path),
           log |-> lookup \o new_sphere.log \o current_area.log \o new_area.log
                     \o <<Invoked("resample",
                                  <<args.transformer_type, args.input_file,
                                    IF sphere_transform = None THEN None
                                    ELSE sphere_transform.file_path,
                                    new_sphere.atlas.file_path,
                                    current_area.atlas.file_path,
                                    new_area.atlas.file_path,
                                    args.output_file_path>>)>>]

surface_transform_end_always(sa, args, source_density, sphere_transform) ==
  surface_transform_end_core(sa, args, source_density, sphere_transform)
surface_transform_end(sa, args, source_density, sphere_transform) ==
  IF sphere_transform = None THEN [outcome |-> "Unresolved", result |-> None, log |-> <<>>]
  ELSE surface_transform_end_core(sa, args, source_density, sphere_transform)

\* VolumeTransformOps._project_volume_to_surface: the three lookups, the
\* ribbon-constrained mapping and the projection.
\* (_project_volume_to_surface_pial_first is the sensitivity variant that
\* fetches pial before white.)
RibbonOrder == <<"white", "pial">>
ProjectedFile(transformer_type, source_space, source_density, hemisphere) ==
  [exists |-> TRUE, kind |-> "surface",
   name |-> <<"src", source_space, source_density, hemisphere, "desc-volume_annot",
              IF transformer_type = "metric" THEN "func" ELSE "label">>,
   density |-> source_density]

ProjectWith(order, sa, transformer_type, input_file, source_space, source_density, hemisphere, area_resource) ==
  LET source_surface == _require_surface_atlas(sa, source_space, source_density,
                                               hemisphere, area_resource)
      ribbon1 == _require_surface_atlas(sa, source_space, source_density, hemisphere, order[1])
      ribbon2 == _require_surface_atlas(sa, source_space, source_density, hemisphere, order[2])
      out_fpath == ProjectedFile(transformer_type, source_space, source_density, hemisphere)
      Raised(log) == [outcome |-> "NoAtlas", result |-> None, log |-> log]
  IN IF source_surface.atlas = None THEN Raised(source_surface.log)
     ELSE IF ribbon1.atlas = None THEN Raised(source_surface.log \o ribbon1.log)
     ELSE IF ribbon2.atlas = None THEN Raised(source_surface.log \o ribbon1.log \o ribbon2.log)
     ELSE [outcome |-> "", result |-> out_fpath,
           log |-> source_surface.log \o ribbon1.log \o ribbon2.log
                     \o <<Invoked("volume_to_surface_mapping_ribbon_constrained",
                                  <<ribbon1.atlas.file_path, ribbon2.atlas.file_path>>),
                          Invoked("surface_project",
                                  <<input_file, source_surface.atlas.file_path, out_fpath>>)>>]

_project_volume_to_surface_pial_first(sa, transformer_type, input_file, source_space, source_density, hemisphere, area_resource) ==
  ProjectWith(<<"pial", "white">>, sa, transformer_type, input_file, source_space,
              source_density, hemisphere, area_resource)
_project_volume_to_surface(sa, transformer_type, input_file, source_space, source_density, hemisphere, area_resource) ==
  ProjectWith(RibbonOrder, sa, transformer_type, input_file, source_space, source_density,
              hemisphere, area_resource)

\* VolumeTransformOps.transform_volume_to_surface up to its call of
\* SurfaceTransformOps.transform: the error raised ("" if none), the log and
\* the arguments of the calls of SurfaceTransformOps.transform.
transform_volume_to_surface_begin(g, sa, args) ==
  LET highest == find_highest_density(sa, args.source_space)
      lookup == IF args.source_density = None
                  THEN <<Fetched("highest_density", <<args.source_space>>, highest)>>
                  ELSE <<>>
      source_density == OrElse(args.source_density, highest)
      projected == _project_volume_to_surface(sa, args.transformer_type, args.input_file,
                                              args.source_space, source_density,
                                              args.hemisphere, args.area_resource)
      Raised(error, log) == [outcome |-> error, log |-> log, surface_calls |-> <<>>]
  IN IF args.transformer_type \notin {"metric", "label"}
       THEN Raised("InvalidTransformerKind", <<>>)
     ELSE IF validate_spaces(g, args.source_space, args.target_space) # ""
       THEN Raised(validate_spaces(g, args.source_space, args.target_space), <<>>)
     ELSE IF validate_file(args.input_file, "volume") # ""
       THEN Raised(validate_file(args.input_file, "volume"), <<>>)
     ELSE IF source_density = None THEN Raised("NoAtlasesFound", lookup)
     ELSE IF projected.outcome # "" THEN Raised(projected.outcome, lookup \o projected.log)
     ELSE [outcome |-> "", log |-> lookup \o projected.log,
           surface_calls |-> <<[args EXCEPT !.input_file = projected.result,
                                            !.source_density = source_density]>>]

\* The graph definitions of the transformers: A carries the sphere and the
\* area, white and pial surfaces, or lacks one of the three; B carries a
\* sphere, C a sphere and the area surface; each space carries a volume
\* atlas, or B lacks it.
TransformerOptions == {"full", "no_area", "no_white", "no_pial", "no_volume_atlas"}

RibbonLeaves(n, opt) ==
  (IF opt = "no_area" THEN <<>> ELSE <<SurfaceLeaf(n, "", D32k, "midthickness", "left")>>)
    \o (IF opt = "no_white" THEN <<>> ELSE <<SurfaceLeaf(n, "", D32k, "white", "left")>>)
    \o (IF opt = "no_pial" THEN <<>> ELSE <<SurfaceLeaf(n, "", D32k, "pial", "left")>>)

TransformerDefinition(opt) ==
  LET sphere(n) == <<SurfaceLeaf(n, "", D32k, "sphere", "left")>>
      volume(n) == <<VolumeLeaf(n, "", Res1mm, "T1w")>>
      warp(u, v) == [from |-> u, to |-> v, volumes |-> <<VolumeLeaf(u, v, Res1mm, "T1w")>>]
  IN [nodes |-> <<StoreNodeEntry("A", sphere("A") \o RibbonLeaves("A", opt), volume("A")),
                  StoreNodeEntry("B", sphere("B"),
                                 IF opt = "no_volume_atlas" THEN <<>> ELSE volume("B")),
                  StoreNodeEntry("C", sphere("C")
                                        \o <<SurfaceLeaf("C", "", D32k, "midthickness", "left")>>,
                                 volume("C"))>>,
      surface_edges |-> <<SurfaceEdgeEntry("A", "B", "s32L"), SurfaceEdgeEntry("B", "C", "s32L")>>,
      volume_edges |-> <<warp("A", "B"), warp("B", "C")>>]

\* No transformer call made yet.
NoTransformerCall ==
  [op |-> "", args |-> None, surface_calls |-> <<>>, stage |-> "done", outcome |-> "",
   result |-> None, source_density |-> None, log |-> <<>>]

TransformerInit ==
  \E opt \in TransformerOptions :
    LET w == build_from_dict(EmptyWorld, TransformerDefinition(opt))
    IN /\ graph = w.graph
       /\ node_data = w.node_data
       /\ surface_atlas = w.surface_atlas
       /\ surface_transform = w.surface_transform
       /\ volume_atlas = w.volume_atlas
       /\ volume_transform = w.volume_transform
       /\ subgraph_memo = EmptyTable
       /\ call = IdleCall
       /\ composed = EmptyTable
       /\ nadds = 0
       /\ query = NoTransformerCall

\* The arguments of the transformer calls.
VolumeCall(input_file, source_space, target_space, resolution, resource_type) ==
  [input_file |-> input_file, source_space |-> source_space, target_space |-> target_space,
   resolution |-> resolution, resource_type |-> resource_type, output_file_path |-> "out"]

VolumeCalls ==
  {VolumeCall(VolumeFile, p[1], p[2], r, "T1w") :
     p \in {<<"A", "B">>, <<"A", "C">>, <<"A", NewSpace>>, <<UnknownSpace, "A">>},
     r \in {Res1mm, Res2mm}}
    \cup {VolumeCall(f, "A", "B", Res1mm, "T1w") : f \in {MissingFile, SurfaceFile}}
    \cup {VolumeCall(MissingFile, UnknownSpace, UnknownSpace, Res1mm, "T1w"),
          VolumeCall(VolumeFile, "A", UnknownSpace, Res1mm, "T1w")}

SurfaceCalls ==
  {TransformerArgs("metric", SurfaceFile, "A", t, "left", sd, td, "midthickness", ae) :
     t \in {"B", "C"}, sd \in {None, D41k}, td \in {None, D32k}, ae \in BOOLEAN}
    \cup {TransformerArgs("other", SurfaceFile, "A", "C", "left", None, None, "midthickness", TRUE),
          TransformerArgs("label", MissingFile, "A", "C", "left", None, None, "midthickness", TRUE),
          TransformerArgs("label", SurfaceFile, UnknownSpace, "C", "left", None, None,
                          "midthickness", TRUE),
          TransformerArgs("label", SurfaceFile, "A", "C", "right", None, None,
                          "midthickness", TRUE),
          TransformerArgs("other", MissingFile, UnknownSpace, UnknownSpace, "left", None, None,
                          "midthickness", TRUE),
          TransformerArgs("label", MissingFile, UnknownSpace, "C", "left", None, None,
                          "midthickness", TRUE),
          TransformerArgs("label", SurfaceFile, UnknownSpace, UnknownSpace, "left", None, None,
                          "midthickness", TRUE),
          TransformerArgs("label", SurfaceFile, "A", UnknownSpace, "left", None, None,
                          "midthickness", TRUE)}

VolumeSurfaceCalls ==
  {TransformerArgs("metric", VolumeFile, "A", t, "left", sd, None, "midthickness", TRUE) :
     t \in {"B", "C"}, sd \in {None, D32k}}
    \cup {TransformerArgs("other", VolumeFile, "A", "C", "left", None, None, "midthickness", TRUE),
          TransformerArgs("label", MissingFile, "A", "C", "left", None, None, "midthickness", TRUE),
          TransformerArgs("label", VolumeFile, "A", "C", "left", D41k, D32k, "midthickness", FALSE),
          TransformerArgs("other", MissingFile, UnknownSpace, UnknownSpace, "left", None, None,
                          "midthickness", TRUE),
          TransformerArgs("label", MissingFile, UnknownSpace, UnknownSpace, "left", None, None,
                          "midthickness", TRUE),
          TransformerArgs("label", VolumeFile, "A", UnknownSpace, "left", None, None,
                          "midthickness", TRUE)}

Idle == call.pc = "idle" /\ query.stage = "done"

\* NeuromapsGraph.volume_to_volume_transformer.
VolumeToVolumeTransformer(a) ==
  /\ Idle
  /\ LET r == transform_volume(graph, volume_atlas, volume_transform, a.input_file,
                               a.source_space, a.target_space, a.resolution,
                               a.resource_type, a.output_file_path)
     IN query' = [NoTransformerCall EXCEPT !.op = "volume_to_volume_transformer", !.args = a,
                                           !.outcome = r.outcome, !.result = r.result,
                                           !.log = r.log]
  /\ UNCHANGED store_vars

\* NeuromapsGraph.surface_to_surface_transformer up to the call of
\* _resolve_sphere_transform.
SurfaceToSurfaceTransformer(a) ==
  /\ Idle
  /\ LET b == surface_transform_begin(graph, a)
     IN query' = [NoTransformerCall EXCEPT
                    !.op = "surface_to_surface_transformer", !.args = a,
                    !.surface_calls = <<a>>,
                    !.stage = IF b.outcome = "" THEN "resolve" ELSE "done",
                    !.outcome = b.outcome, !.source_density = b.source_density]
  /\ UNCHANGED store_vars

\* NeuromapsGraph.volume_to_surface_transformer up to the call of
\* _resolve_sphere_transform in the surface stage.
VolumeToSurfaceTransformer(a) ==
  /\ Idle
  /\ LET v == transform_volume_to_surface_begin(graph, surface_atlas, a)
         b == surface_transform_begin(graph, v.surface_calls[1])
     IN query' = [NoTransformerCall EXCEPT
                    !.op = "volume_to_surface_transformer", !.args = a,
                    !.surface_calls = v.surface_calls, !.log = v.log,
                    !.stage = IF v.outcome = "" /\ b.outcome = "" THEN "resolve" ELSE "done",
                    !.outcome = IF v.outcome # "" THEN v.outcome ELSE b.outcome,
                    !.source_density = IF v.outcome # "" THEN None ELSE b.source_density]
  /\ UNCHANGED store_vars

\* The call of _resolve_sphere_transform in SurfaceTransformOps.transform.
ResolveSphereTransform ==
  /\ query.stage = "resolve"
  /\ LET a == query.surface_calls[1]
     IN ResolveStart(a.source_space, a.target_space, query.source_density, a.hemisphere,
                     a.add_edge, a.output_file_path)

\* SurfaceTransformOps.transform from the return of _resolve_sphere_transform
\* (or the exception it raised) to its own return.
TransformerEnd ==
  /\ query.stage = "resolve"
  /\ call.pc = "returned"
  /\ call' = IdleCall
  /\ LET e == surface_transform_end(surface_atlas, query.surface_calls[1],
                                    query.source_density, call.result)
         raised == call.outcome \notin {"DirectHop", "Resolved"}
     IN query' = [query EXCEPT !.stage = "done",
                               !.outcome = IF raised THEN call.outcome ELSE e.outcome,
                               !.result = IF raised THEN None ELSE e.result,
                               !.log = IF raised THEN @ ELSE @ \o e.log]
  /\ UNCHANGED <<graph, node_data, cache_vars, subgraph_memo, composed, nadds>>

\* GraphCache.clear.
clear ==
  /\ Idle
  /\ surface_atlas' = EmptyTable
  /\ surface_transform' = EmptyTable
  /\ volume_atlas' = EmptyTable
  /\ volume_transform' = EmptyTable
  /\ UNCHANGED <<graph, node_data, subgraph_memo, call, composed, nadds, query>>

\* The add_transform calls made between transformer calls: the surface
\* transform A -> C and the volume transform A -> E, each under the key of
\* its class.
TransformerRegistrations ==
  {r \in Registrations :
     /\ r[1].weight = 1
     /\ r[2] = IF IsSurfaceTransform(r[1]) THEN surface_to_surface_key
               ELSE volume_to_volume_key}

TransformerNext ==
  \/ \E a \in VolumeCalls : VolumeToVolumeTransformer(a)
  \/ \E a \in SurfaceCalls : SurfaceToSurfaceTransformer(a)
  \/ \E a \in VolumeSurfaceCalls : VolumeToSurfaceTransformer(a)
  \/ ResolveSphereTransform
  \/ \E ok \in BOOLEAN : ComposeNextHop(ok)
  \/ TransformerEnd
  \/ \E r \in TransformerRegistrations : Idle /\ add_transform(r[1], r[2])
  \/ clear

TransformerSpec == TransformerInit /\ [][TransformerNext]_vars

(***************************************************************************)
(* GraphBuilder.build_from_dict entry by entry (graph/builder.py): the     *)
(* node entries, then the surface edge entries, then the volume edge       *)
(* entries, each in the order of its list, until an exception ends the     *)
(* build.  The definitions declare the spaces P and Q with edges in both   *)
(* directions; they may repeat entries with other files, name a file that  *)
(* is not on disk, or have an edge into a space that no entry declares,    *)
(* and their lists come in every order.                                    *)
(***************************************************************************)
WithoutFile(leaf) == [leaf EXCEPT !.path.tag = NoSuchFile]

BuildOptions ==
  {"plain", "repeated", "no_atlas_file", "no_volume_file", "no_transform_file",
   "no_warp_file", "undeclared"}

BuildDefinition(opt) ==
  LET atlasP == <<SurfaceLeaf("P", "", D32k, "sphere", "left"),
                  SurfaceLeaf("P", "", D41k, "sphere", "left")>>
      volumeP == <<VolumeLeaf("P", "", Res1mm, "T1w")>>
      atlasQ == <<SurfaceLeaf("Q", "", D32k, "sphere", "left")>>
      surfacePQ == <<SurfaceLeaf("P", "Q", D32k, "sphere", "left")>>
      back == IF opt = "undeclared" THEN NewSpace ELSE "P"
      surfaceQP == <<SurfaceLeaf("Q", back, D32k, "sphere", "left")>>
      volumePQ == <<VolumeLeaf("P", "Q", Res1mm, "T1w")>>
      volumeQP == <<VolumeLeaf("Q", back, Res1mm, "T1w")>>
  IN [nodes |->
        <<StoreNodeEntry("P", atlasP,
                         IF opt = "no_volume_file" THEN <<WithoutFile(volumeP[1])>>
                         ELSE volumeP),
          StoreNodeEntry("Q", IF opt = "no_atlas_file" THEN <<WithoutFile(atlasQ[1])>>
                              ELSE atlasQ, <<>>)>>
          \o (IF opt = "repeated"
                THEN <<StoreNodeEntry("P", OtherFiles(atlasP), OtherFiles(volumeP))>>
                ELSE <<>>),
      surface_edges |->
        <<[from |-> "P", to |-> "Q", surfaces |-> surfacePQ],
          [from |-> "Q", to |-> back,
           surfaces |-> IF opt = "no_transform_file" THEN <<WithoutFile(surfaceQP[1])>>
                        ELSE surfaceQP]>>
          \o (IF opt = "repeated"
                THEN <<[from |-> "P", to |-> "Q", surfaces |-> OtherFiles(surfacePQ)]>>
                ELSE <<>>),
      volume_edges |->
        <<[from |-> "P", to |-> "Q", volumes |-> volumePQ],
          [from |-> "Q", to |-> back,
           volumes |-> IF opt = "no_warp_file" THEN <<WithoutFile(volumeQP[1])>>
                       ELSE volumeQP]>>
          \o (IF opt = "repeated"
                THEN <<[from |-> "P", to |-> "Q", volumes |-> OtherFiles(volumePQ)]>>
                ELSE <<>>)]

\* The orders of a list of n entries.
Orders(n) == {f \in [1 .. n -> 1 .. n] : \A i, j \in 1 .. n : f[i] = f[j] => i = j}
Reordered(entries, f) == [i \in DOMAIN entries |-> entries[f[i]]]

\* The definitions with the entries of def, each list in any order.
Reorderings(def) ==
  {[nodes |-> Reordered(def.nodes, p),
    surface_edges |-> Reordered(def.surface_edges, q),
    volume_edges |-> Reordered(def.volume_edges, r)] :
     p \in Orders(Len(def.nodes)), q \in Orders(Len(def.surface_edges)),
     r \in Orders(Len(def.volume_edges))}

BuildDefinitions == UNION {Reorderings(BuildDefinition(opt)) : opt \in BuildOptions}

\* The iterations of the three loops of build_from_dict, in program order.
BuildSteps(def) ==
  [i \in DOMAIN def.nodes |-> [kind |-> "node", entry |-> def.nodes[i]]]
    \o [i \in DOMAIN def.surface_edges |->
          [kind |-> "surface_edge", entry |-> def.surface_edges[i]]]
    \o [i \in DOMAIN def.volume_edges |->
          [kind |-> "volume_edge", entry |-> def.volume_edges[i]]]

\* query is the build: its definition, the index of the next iteration and
\* the exception that ended it.
BuildInit ==
  \E def \in BuildDefinitions :
    /\ graph = EmptyWorld.graph
    /\ node_data = EmptyTable
    /\ surface_atlas = EmptyTable
    /\ surface_transform = EmptyTable
    /\ volume_atlas = EmptyTable
    /\ volume_transform = EmptyTable
    /\ subgraph_memo = EmptyTable
    /\ call = IdleCall
    /\ composed = EmptyTable
    /\ nadds = 0
    /\ query = [op |-> "build_from_dict", args |-> <<def>>, result |-> None,
                i |-> 1, raised |-> ""]

Building == query.raised = "" /\ query.i <= Len(BuildSteps(query.args[1]))
NextEntry == BuildSteps(query.args[1])[query.i]
CurrentWorld ==
  World(graph, node_data, surface_atlas, surface_transform, volume_atlas, volume_transform)

\* The state after an iteration that left the world w.
BuildStep(w) ==
  /\ graph' = w.graph
  /\ node_data' = w.node_data
  /\ surface_atlas' = w.surface_atlas
  /\ surface_transform' = w.surface_transform
  /\ volume_atlas' = w.volume_atlas
  /\ volume_transform' = w.volume_transform
  /\ query' = [query EXCEPT !.i = IF w.raised = "" THEN @ + 1 ELSE @, !.raised = w.raised]
  /\ UNCHANGED <<subgraph_memo, call, composed, nadds>>

BuildNode ==
  /\ Building
  /\ NextEntry.kind = "node"
  /\ BuildStep(_build_node(CurrentWorld, NextEntry.entry))

BuildSurfaceEdge ==
  /\ Building
  /\ NextEntry.kind = "surface_edge"
  /\ BuildStep(_build_surface_edge(CurrentWorld, NextEntry.entry))

BuildVolumeEdge ==
  /\ Building
  /\ NextEntry.kind = "volume_edge"
  /\ BuildStep(_build_volume_edge(CurrentWorld, NextEntry.entry))

BuildNext ==
  \/ BuildNode
  \/ BuildSurfaceEdge
  \/ BuildVolumeEdge

BuildSpec == BuildInit /\ [][BuildNext]_vars

(***************************************************************************)
(* Properties.                                                             *)
(***************************************************************************)
Returned_(outcome) == call.pc = "returned" /\ call.outcome = outcome

\* The key under which a transform is stored.
StoredUnderOwnKey(st, t) ==
  SurfaceTransformKey(t) \in DOMAIN st /\ st[SurfaceTransformKey(t)] = t

\* The first-hop transform path[0] -> path[1] of the call, as stored when
\* the call started.
FirstTransform ==
  get_surface_transform(call.store0, At(call.path, 0), At(call.path, 1),
                        call.density, call.hemisphere, "sphere")

\* The failures of a composition step.
HopFailures == {"NoCommonDensity", "NoAtlas", "NoTransform", "ExternalOperationFailed"}
FailedAtHop == call.pc = "returned" /\ call.outcome \in HopFailures /\ call.hop_idx >= 2

\* C1: once a registering multi-hop resolve of (X, Z) has succeeded, every
\* find_path(X, Z, 'surface_to_surface') returns exactly [X, Z].
C1_ShortcutInOneHop ==
  \A k \in DOMAIN composed :
    find_path(subgraph_memo, graph, k[1], k[2], surface_to_surface_key)
      = {Returned(<<k[1], k[2]>>)}

\* C2: a resolve that repeats the arguments of an earlier successful
\* registering multi-hop resolve returns a transform with the artifact path
\* of that earlier call and invokes the external operation zero times.
C2_RepeatedResolveIsMemoised ==
  (call.pc = "returned" /\ call.repeat /\ call.result # None) =>
    /\ call.result.file_path
         = composed[ComposedKey(call.source, call.target, call.density, call.hemisphere)]
    /\ call.ext_calls = <<>>

\* C3: a multi-hop resolve invokes the external operation once per hop index
\* 2, 3, ... in increasing order, N-2 times when it succeeds on a path of N
\* spaces; the sphere_in of the invocation at hop i is the artifact of the
\* transform accumulated at hop i-1 (the stored first-hop transform for i = 2).
C3_ExternalInvocations ==
  /\ call.pc = "composing" => Len(call.ext_calls) = call.hop_idx - 2
  /\ \A j \in DOMAIN call.ext_calls :
       /\ call.ext_calls[j].hop_idx = j + 1
       /\ call.ext_calls[j].sphere_in =
            IF j = 1 THEN FirstTransform.file_path ELSE call.derived[j - 1].file_path
  /\ Returned_("Resolved") =>
       /\ Len(call.path) >= 3
       /\ Len(call.ext_calls) = Len(call.path) - 2

C3_Witness ==
  /\ Returned_("Resolved")
  /\ Len(call.path) = 4
  /\ Len(call.ext_calls) = 2

\* C4: the transform returned by a successful multi-hop resolve goes from the
\* requested source to the requested target (the last space of the path) at
\* the requested density and hemisphere, is a 'sphere' and has weight
\* len(path)-1; the transform derived at hop index i has weight i.
C4_ResolvedTransform ==
  /\ Returned_("Resolved") =>
       /\ call.result.source_space = call.source
       /\ call.result.target_space = call.target
       /\ call.target = call.path[Len(call.path)]
       /\ call.result.density = call.density
       /\ call.result.hemisphere = call.hemisphere
       /\ call.result.resource_type = "sphere"
       /\ call.result.weight = Len(call.path) - 1
  /\ \A j \in DOMAIN call.derived :
       /\ call.derived[j].weight = j + 1
       /\ call.derived[j].source_space = call.source
       /\ call.derived[j].target_space = At(call.path, j + 1)

C4_Witness ==
  /\ Returned_("Resolved")
  /\ Len(call.path) = 3
  /\ call.result.weight = 2

\* C5: with add_edge, each transform derived at hop index i is in the store
\* under its key and is a surface_to_surface edge source -> path[i] of the
\* graph with weight i.
C5_DerivedInStoreAndGraph ==
  call.add_edge =>
    \A j \in DOMAIN call.derived :
      LET t == call.derived[j]
          e == <<t.source_space, t.target_space, surface_to_surface_key>>
      IN /\ StoredUnderOwnKey(surface_transform, t)
         /\ e \in DOMAIN graph.edges
         /\ graph.edges[e].weight = j + 1

\* C6: when a composition fails at hop index k, the transforms registered at
\* the hops before k are still in the store, and the store is otherwise as it
\* was when the call started: nothing is registered for hop k or a later hop.
C6_NoRollbackOnFailure ==
  FailedAtHop =>
    LET k == call.hop_idx
        registered == IF call.add_edge THEN Range(call.derived) ELSE {}
        regkeys == {SurfaceTransformKey(t) : t \in registered}
    IN /\ Len(call.derived) = k - 2
       /\ \A t \in registered : StoredUnderOwnKey(surface_transform, t)
       /\ \A key \in (DOMAIN surface_transform \cup DOMAIN call.store0) \ regkeys :
            Get(surface_transform, key) = Get(call.store0, key)
       /\ \A i \in k .. (Len(call.path) - 1) :
            LET key == <<call.source, At(call.path, i), call.density,
                         Lower(call.hemisphere), "sphere">>
            IN Get(surface_transform, key) = Get(call.store0, key)

C6_Witness ==
  /\ FailedAtHop
  /\ call.add_edge
  /\ call.hop_idx = 3
  /\ Len(call.derived) = 1
  /\ StoredUnderOwnKey(surface_transform, call.derived[1])

\* The call found a direct surface edge but the store has no sphere transform
\* for the requested density and hemisphere.
DirectHopWithoutTransform ==
  /\ call.pc = "returned"
  /\ call.find_path_calls = 1
  /\ Len(call.path) = 2
  /\ get_surface_transform(call.store0, call.source, call.target, call.density,
                           call.hemisphere, "sphere") = None

ClassPath(g, source, target, key) == SimplePaths(FilterEdges(g, key), source, target) # {}

C8_NoPath ==
  /\ (call.pc = "returned" /\ call.source # call.target /\ call.find_path_calls = 1
        /\ call.outcome # "NodeNotFound" /\ Len(call.path) < 2) =>
       /\ call.outcome = "NoPath"
       /\ call.ext_calls = <<>>
       /\ call.derived = <<>>
       /\ surface_transform = call.store0
       /\ graph = call.graph0
  /\ (call.pc = "returned" /\ call.source # call.target
        /\ {call.source, call.target} \subseteq call.graph0.nodes
        /\ ~ClassPath(call.graph0, call.source, call.target, surface_to_surface_key)) =>
       call.outcome = "NoPath"

C8_Witness ==
  /\ Returned_("NoPath")
  /\ call.source # call.target
  /\ ClassPath(graph, call.source, call.target, volume_to_volume_key)
  /\ ~ClassPath(graph, call.source, call.target, surface_to_surface_key)

\* C9: a resolve with source = target fails with the same-space error, for a
\* registered and for an unregistered space, without calling find_path or the
\* external operation and leaving the store, the graph and the memoised
\* subgraphs unchanged.
C9_SameSpaceRejected ==
  [][(call.pc = "idle" /\ call'.pc = "returned" /\ call'.source = call'.target) =>
       /\ call'.outcome = "SameSpace"
       /\ call'.find_path_calls = 0
       /\ call'.ext_calls = <<>>
       /\ UNCHANGED <<graph, node_data, cache_vars, subgraph_memo>>]_vars

C9_Witness ==
  /\ Returned_("SameSpace")
  /\ call.source = UnknownSpace
  /\ call.target = UnknownSpace
  /\ UnknownSpace \notin graph.nodes

\* C10: whenever find_path can be called (by a caller, or by a resolve that
\* starts), a path returned by find_path(A, B, class) has an edge keyed by that
\* class between each two consecutive spaces, for both classes.
PathUsesClassEdges(path, key) ==
  \A i \in 1 .. (Len(path) - 1) : <<path[i], path[i + 1], key>> \in DOMAIN graph.edges

C10_ClassIsolation ==
  call.pc = "idle" =>
  \A key \in EdgeKeys, source \in graph.nodes, target \in graph.nodes :
    \A r \in find_path(subgraph_memo, graph, source, target, key) :
      PathUsesClassEdges(r.path, key)

C10_Witness ==
  /\ call.pc = "idle"
  /\ <<"A", "C", volume_to_volume_key>> \in DOMAIN graph.edges
  /\ <<"A", "C", surface_to_surface_key>> \notin DOMAIN graph.edges
  /\ surface_to_surface_key \in DOMAIN subgraph_memo
  /\ \E r \in find_path(subgraph_memo, graph, "A", "C", surface_to_surface_key) :
       Len(r.path) = 3

\* The graph a find_path without a class searches, and the class-filtered
\* graph as it is now (a first get_subgraph of the class would build it).
CurrentView(g, edge_type) ==
  IF edge_type = NoEdgeType THEN g ELSE FilterEdges(g, edge_type)

\* C11: for spaces that are nodes of the graph and every edge_type, find_path
\* returns the empty list and raises nothing when the (class-filtered) graph
\* has no path from source to target.
C11_NoPathReturnsEmpty ==
  call.pc = "idle" =>
    \A source \in graph.nodes, target \in graph.nodes, edge_type \in EdgeKeys \cup {NoEdgeType} :
      shortest_path(CurrentView(graph, edge_type), source, target) = {NetworkXNoPath}
        => find_path(subgraph_memo, graph, source, target, edge_type) = {Returned(<<>>)}

\* C12: after add_transform(t, key) the exact-key fetch of t's own key fields
\* returns t, and the graph has the edge t.source_space -> t.target_space
\* under key with weight t.weight.
C12_AddTransformRegisters ==
  [][\A r \in Registrations :
       add_transform(r[1], r[2]) =>
         LET t == r[1]
             e == <<t.source_space, t.target_space, r[2]>>
         IN /\ IF IsSurfaceTransform(t)
                 THEN get_surface_transform(surface_transform', t.source_space, t.target_space,
                                            t.density, t.hemisphere, t.resource_type) = t
                 ELSE get_volume_transform(volume_transform', t.source_space, t.target_space,
                                           t.resolution, t.resource_type) = t
            /\ e \in DOMAIN graph'.edges
            /\ graph'.edges[e].weight = t.weight
            /\ graph'.edges[e].data =
                 IF IsSurfaceTransform(t) THEN Edge(<<t>>, <<>>) ELSE Edge(<<>>, <<t>>)]_vars

\* A surface transform of weight 2 and a volume transform have been
\* registered by hand and are in the store and in the graph.
C12_Witness ==
  /\ nadds >= 1
  /\ \E r \in Registrations :
       LET t == r[1]
           e == <<t.source_space, t.target_space, r[2]>>
       IN /\ e \in DOMAIN graph.edges
          /\ graph.edges[e].weight = t.weight
          /\ t.weight = 2
          /\ get_surface_transform(surface_transform, t.source_space, t.target_space,
                                   t.density, t.hemisphere, t.resource_type) = t

\* C13: the per-class filtered view is never stale: every edge of class c in
\* the graph is in the view that find_path uses for c, and find_path between
\* its endpoints answers as a query on the graph as it is now.
C13_ViewNeverStale ==
  call.pc = "idle" =>
    \A e \in DOMAIN graph.edges :
      /\ e \in DOMAIN _cached_subgraph(subgraph_memo, graph, e[3]).edges
      /\ find_path(subgraph_memo, graph, e[1], e[2], e[3])
           = find_path(EmptyTable, graph, e[1], e[2], e[3])

\* The spaces of the routes find_path(A, T, 'surface_to_surface') can return
\* with the memoised views memo on graph g.
SurfaceRoutes(memo, g, A, T) == find_path(memo, g, A, T, surface_to_surface_key)

\* All routes in before are paths that avoid S, and every route in after is
\* a path that avoids S and has the length of a route in before.
RoutesKept(before, after, S) ==
  (\A r \in before : r.raised = "" /\ Len(r.path) >= 1 /\ S \notin Range(r.path))
    => \A r \in after :
         /\ r.raised = ""
         /\ S \notin Range(r.path)
         /\ \E q \in before : Len(q.path) = Len(r.path)

C15_DerivedWeightIsRouteCost ==
  \A j \in DOMAIN call.derived :
    call.add_edge =>
     call.derived[j].weight
      = PathCost(_cached_subgraph(subgraph_memo, call.graph0, surface_to_surface_key),
                 SubSeq(call.path, 1, j + 2))

\* The number a density string denotes: "<n>k" is n thousand.
DensityValue(d) == IF d.k THEN d.n * 1000 ELSE d.n

\* d is a numerically largest element of the set S of densities.
NumericallyLargest(d, S) == d \in S /\ \A e \in S : DensityValue(e) <= DensityValue(d)

\* The densities of the surface atlases stored for a space.
AtlasDensities(space) == {a.density : a \in fetch_surface_atlases(surface_atlas, space)}

\* C16: find_common_density(mid, target) returns the numerically largest
\* density that mid's surface atlases and the surface transforms mid ->
\* target have in common, and raises exactly when they have none in common.
C16_CommonDensityIsLargest ==
  query.op = "find_common_density" =>
    LET common == CommonDensities(surface_atlas, surface_transform,
                                  query.args[1], query.args[2])
    IN IF common = {} THEN query.result = None
       ELSE NumericallyLargest(query.result, common)

\* C17: find_highest_density(space) returns the numerically largest density
\* of the surface atlases of the space, of any hemisphere and resource type,
\* and raises exactly when the space has none, also when it is unknown.
C17_HighestDensityIsLargest ==
  query.op = "find_highest_density" =>
    IF AtlasDensities(query.args[1]) = {} THEN query.result = None
    ELSE NumericallyLargest(query.result, AtlasDensities(query.args[1]))

\* C18: the ordering key of "<n>k" is n * 1000 and that of a bare integer
\* string its value, blanks around the string not counting; so neither
\* density helper prefers a bare density below n * 1000 to "<n>k".
C18_DensityKeyScalesK ==
  /\ query.op = "_get_density_key" => query.result = DensityValue(query.args[1])
  /\ (query.op \in {"find_highest_density", "find_common_density"} /\ query.result # None) =>
       LET candidates == IF query.op = "find_highest_density"
                           THEN AtlasDensities(query.args[1])
                           ELSE CommonDensities(surface_atlas, surface_transform,
                                                query.args[1], query.args[2])
       IN \A c \in candidates :
            (c.k /\ ~query.result.k) => query.result.n >= c.n * 1000

RECURSIVE Flatten(_)
Flatten(ss) == IF ss = <<>> THEN <<>> ELSE Head(ss) \o Flatten(Tail(ss))

\* The objects GraphBuilder creates for a definition, in creation order.
CreatedSurfaceAtlases(def) ==
  Flatten([i \in DOMAIN def.nodes |->
             _parse_surfaces(def.nodes[i].name, def.nodes[i].surfaces)])
CreatedVolumeAtlases(def) ==
  Flatten([i \in DOMAIN def.nodes |->
             _parse_volumes(def.nodes[i].name, def.nodes[i].volumes)])
CreatedSurfaceTransforms(def) ==
  Flatten([i \in DOMAIN def.surface_edges |->
             _parse_surface_to_surface_transforms(def.surface_edges[i].from,
                                                  def.surface_edges[i].to,
                                                  def.surface_edges[i].surfaces)])
CreatedVolumeTransforms(def) ==
  Flatten([i \in DOMAIN def.volume_edges |->
             _parse_volume_to_volume_transforms(def.volume_edges[i].from,
                                                def.volume_edges[i].to,
                                                def.volume_edges[i].volumes)])

\* The exact-key lookup called with an object's own key fields.
LookupSurfaceAtlas(a) ==
  get_surface_atlas(surface_atlas, a.space, a.density, a.hemisphere, a.resource_type)
LookupVolumeAtlas(a) == get_volume_atlas(volume_atlas, a.space, a.resolution, a.resource_type)
LookupSurfaceTransform(t) ==
  get_surface_transform(surface_transform, t.source_space, t.target_space, t.density,
                        t.hemisphere, t.resource_type)
LookupVolumeTransform(t) ==
  get_volume_transform(volume_transform, t.source_space, t.target_space, t.resolution,
                       t.resource_type)

\* The definition that was built, while no helper has been called since.
Built == query.op = "build_from_dict"
BuiltDefinition == query.args[1]

\* C19 (as claimed): after the build, the exact-key lookup of every created
\* atlas and transform returns that object.
C19_EveryCreatedObjectIsFound ==
  Built =>
    /\ \A a \in Range(CreatedSurfaceAtlases(BuiltDefinition)) : LookupSurfaceAtlas(a) = a
    /\ \A a \in Range(CreatedVolumeAtlases(BuiltDefinition)) : LookupVolumeAtlas(a) = a
    /\ \A t \in Range(CreatedSurfaceTransforms(BuiltDefinition)) : LookupSurfaceTransform(t) = t
    /\ \A t \in Range(CreatedVolumeTransforms(BuiltDefinition)) : LookupVolumeTransform(t) = t

\* The object of the sequence created last among those filed under the key
\* of objs[i].
LastCreated(objs, i, Key(_)) ==
  objs[CHOOSE j \in DOMAIN objs :
         /\ Key(objs[j]) = Key(objs[i])
         /\ \A k \in DOMAIN objs : Key(objs[k]) = Key(objs[i]) => k <= j]

\* C19 (amended): after the build, the exact-key lookup of a created object
\* returns the object created last for its key: the object itself unless a
\* later entry of the definition defines the key again.
C19_LastCreatedObjectIsFound ==
  Built =>
    LET sa == CreatedSurfaceAtlases(BuiltDefinition)
        va == CreatedVolumeAtlases(BuiltDefinition)
        st == CreatedSurfaceTransforms(BuiltDefinition)
        vt == CreatedVolumeTransforms(BuiltDefinition)
    IN /\ \A i \in DOMAIN sa : LookupSurfaceAtlas(sa[i]) = LastCreated(sa, i, SurfaceAtlasKey)
       /\ \A i \in DOMAIN va : LookupVolumeAtlas(va[i]) = LastCreated(va, i, VolumeAtlasKey)
       /\ \A i \in DOMAIN st :
            LookupSurfaceTransform(st[i]) = LastCreated(st, i, SurfaceTransformKey)
       /\ \A i \in DOMAIN vt :
            LookupVolumeTransform(vt[i]) = LastCreated(vt, i, VolumeTransformKey)

\* A definition that repeats its entries has been built: the first atlas of
\* Y is not found under its key, the atlas of the repeated entry is.
C19_Witness ==
  /\ Built
  /\ Len(CreatedSurfaceAtlases(BuiltDefinition)) = 4
  /\ Len(CreatedSurfaceTransforms(BuiltDefinition)) = 2
  /\ LET sa == CreatedSurfaceAtlases(BuiltDefinition)
     IN /\ SurfaceAtlasKey(sa[1]) = SurfaceAtlasKey(sa[3])
        /\ LookupSurfaceAtlas(sa[1]) = sa[3]
        /\ sa[1] # sa[3]

\* A caller's upper-case spelling of a hemisphere.
Upper(h) ==
  CASE h = "left" -> "LEFT"
    [] h = "right" -> "RIGHT"
    [] OTHER -> h

\* C20: surface atlas and surface transform lookups match the hemisphere
\* after lower-casing and never fall back to the other hemisphere: for the
\* space (or source and target), density and resource type of every stored
\* entry and either hemisphere, a lookup for 'LEFT' returns what the lookup
\* for 'left' returns and whatever is found is of the hemisphere asked for
\* (looked up between calls, where every store the program reaches is seen);
\* and a resolve returns and uses only resources of the hemisphere it was
\* called with.
C20_HemisphereExact ==
  /\ call.pc = "idle" => \A h \in Hemispheres, q \in DOMAIN surface_atlas :
       LET a == get_surface_atlas(surface_atlas, q[1], q[2], h, q[4])
       IN /\ get_surface_atlas(surface_atlas, q[1], q[2], Upper(h), q[4]) = a
          /\ a # None => a.hemisphere = h
          /\ fetch_surface_atlases_hemisphere(surface_atlas, q[1], Upper(h))
               = fetch_surface_atlases_hemisphere(surface_atlas, q[1], h)
          /\ \A b \in fetch_surface_atlases_hemisphere(surface_atlas, q[1], h) : b.hemisphere = h
  /\ call.pc = "idle" => \A h \in Hemispheres, q \in DOMAIN surface_transform :
       LET t == get_surface_transform(surface_transform, q[1], q[2], q[3], h, q[5])
       IN /\ get_surface_transform(surface_transform, q[1], q[2], q[3], Upper(h), q[5]) = t
          /\ t # None => t.hemisphere = h
  /\ (call.pc = "returned" /\ call.result # None) => call.result.hemisphere = call.hemisphere
  /\ \A j \in DOMAIN call.ext_calls :
       /\ call.ext_calls[j].sphere_project_to.hemi = call.hemisphere
       /\ call.ext_calls[j].sphere_unproject_from.hemi = call.hemisphere

\* B has a sphere atlas at 41k for the right hemisphere only: the lookup for
\* the left one finds nothing, and a resolve for the left hemisphere through
\* B has failed for want of that atlas.
C20_Witness ==
  /\ Returned_("NoAtlas")
  /\ call.hemisphere = "left"
  /\ At(call.path, call.hop_idx - 1) = "B"
  /\ get_surface_atlas(surface_atlas, "B", D41k, "right", "sphere") # None
  /\ get_surface_atlas(surface_atlas, "B", D41k, "LEFT", "sphere") = None
  /\ find_common_density(surface_atlas, surface_transform, "B", At(call.path, call.hop_idx)) = D41k

\* A call of an external operation is in the log.
Invocations(log) == {i \in DOMAIN log : log[i].ev = "external"}

\* source and target are joined by a path of the class but by no edge of it.
OnlyMultiHop(g, source, target, key) ==
  /\ <<source, target, key>> \notin DOMAIN g.edges
  /\ \E p \in SimplePaths(FilterEdges(g, key), source, target) : Len(p) > 2

\* C21: a volume_to_volume_transformer call invokes the external volume warp
\* only if the store holds the exact (source, target, resolution,
\* resource_type) transform and the (target, resolution, resource_type)
\* atlas; with a valid input and spaces joined only by a multi-hop
\* volume_to_volume path it fails with the no-transform error; and it changes
\* neither the store nor the graph.
C21_VolumeWarpIsSingleHop ==
  [][\A a \in VolumeCalls :
       VolumeToVolumeTransformer(a) =>
         /\ Invocations(query'.log) # {} =>
              /\ get_volume_transform(volume_transform, a.source_space, a.target_space,
                                      a.resolution, a.resource_type) # None
              /\ get_volume_atlas(volume_atlas, a.target_space, a.resolution,
                                  a.resource_type) # None
              /\ query'.outcome = "Warped"
         /\ (OnlyMultiHop(graph, a.source_space, a.target_space, volume_to_volume_key)
               /\ a.input_file = VolumeFile) =>
              query'.outcome = "NoTransform" /\ Invocations(query'.log) = {}
         /\ UNCHANGED <<graph, node_data, cache_vars, subgraph_memo>>]_vars

\* A volume call from A to C, which only the path A -> B -> C joins, has
\* failed for want of a transform.
C21_Witness ==
  /\ query.op = "volume_to_volume_transformer"
  /\ query.args.source_space = "A" /\ query.args.target_space = "C"
  /\ query.args.resolution = Res1mm
  /\ OnlyMultiHop(graph, "A", "C", volume_to_volume_key)
  /\ volume_transform # EmptyTable
  /\ query.outcome = "NoTransform"

IsAtlasFetch(e) == e.ev = "fetch" /\ e.what = "surface_atlas"
IsInvocation(e) == e.ev = "external"

\* What a volume_to_surface_transformer call with arguments a, made on the
\* current store, has done when it reaches the surface stage or fails before
\* it (q is the record of the call): the surfaces are fetched in the order
\* area, white, pial at the chosen density, each only if the ones before it
\* were found; a missing one ends the call with NoAtlas, no external
\* operation and no surface-stage call; with all three found the ribbon
\* mapping and the projection are invoked, in this order and after the three
\* fetches, and the surface stage is called once with the projected artifact,
\* the source density `passed` and the caller's other arguments.
ProjectsThenResamples(a, q, passed) ==
  LET chosen == OrElse(a.source_density, find_highest_density(surface_atlas, a.source_space))
      wanted == <<a.area_resource, "white", "pial">>
      Found(i) == get_surface_atlas(surface_atlas, a.source_space, chosen, a.hemisphere,
                                    wanted[i]) # None
      fetches == SelectSeq(q.log, IsAtlasFetch)
      invocations == SelectSeq(q.log, IsInvocation)
      valid == /\ a.transformer_type \in {"metric", "label"}
               /\ {a.source_space, a.target_space} \subseteq graph.nodes
               /\ a.input_file = VolumeFile
               /\ chosen # None
  IN valid =>
       /\ Len(fetches) <= 3
       /\ \A i \in 1 .. 3 : i <= Len(fetches) <=> \A j \in 1 .. (i - 1) : Found(j)
       /\ \A i \in DOMAIN fetches :
            /\ fetches[i].args = <<a.source_space, chosen, a.hemisphere, wanted[i]>>
            /\ fetches[i].found = Found(i)
       /\ IF \E i \in 1 .. 3 : ~Found(i)
            THEN /\ q.outcome = "NoAtlas"
                 /\ q.stage = "done"
                 /\ invocations = <<>>
                 /\ q.surface_calls = <<>>
                 /\ IsAtlasFetch(q.log[Len(q.log)])
            ELSE /\ Len(invocations) = 2
                 /\ invocations[1].name = "volume_to_surface_mapping_ribbon_constrained"
                 /\ invocations[2].name = "surface_project"
                 /\ SubSeq(q.log, Len(q.log) - 1, Len(q.log)) = invocations
                 /\ Len(q.surface_calls) = 1
                 /\ q.surface_calls[1] =
                      [a EXCEPT !.input_file = invocations[2].args[3],
                                !.source_density = passed]

\* C22 as stated: the surface stage receives the caller's densities unchanged.
C22_SurfaceStageGetsCallersDensities ==
  [][\A a \in VolumeSurfaceCalls :
       VolumeToSurfaceTransformer(a) => ProjectsThenResamples(a, query', a.source_density)]_vars

\* C22, amended: a volume_to_surface_transformer call fetches the source
\* space's area surface, then white, then pial at the chosen density (the
\* caller's source density, or the highest density of the source space when
\* the caller gives none) and stops with an error at the first missing one,
\* with no later fetch and no external call; the ribbon-constrained mapping
\* runs only after all three are found; the surface-to-surface pipeline is
\* then invoked exactly once, with the projected artifact as input, the chosen
\* density as source density and the caller's source, target, hemisphere,
\* target density, area resource and add_edge unchanged.
C22_ProjectionThenSurfaceStage ==
  [][/\ \A a \in VolumeSurfaceCalls :
          VolumeToSurfaceTransformer(a) =>
            ProjectsThenResamples(a, query',
                                  OrElse(a.source_density,
                                         find_highest_density(surface_atlas, a.source_space)))
     /\ query.stage = "resolve" => query'.surface_calls = query.surface_calls]_vars

\* A call without a source density on a graph whose space A has the three
\* surfaces has projected at the highest density and resampled to C.
C22_Witness ==
  /\ query.op = "volume_to_surface_transformer"
  /\ query.args.source_density = None
  /\ query.stage = "done"
  /\ query.outcome = "Resampled"
  /\ Len(query.surface_calls) = 1
  /\ query.surface_calls[1].source_density = D32k

\* _resolve_sphere_transform has returned None (no exception reaches the caller).
ResolverYieldsNone ==
  call.pc = "returned" /\ call.outcome \in {"DirectHop", "Resolved"} /\ call.result = None

\* C23: when _resolve_sphere_transform yields no transform, the transformer
\* returns None and makes no further step: the log of the call gains no
\* target-density lookup, no surface-atlas fetch and no external resample
\* call (for surface_to_surface_transformer it is empty), and store and graph
\* stay as they are.
C23_UnresolvedReturnsNone ==
  [][(TransformerEnd /\ ResolverYieldsNone) =>
       /\ query'.stage = "done"
       /\ query'.outcome = "Unresolved"
       /\ query'.result = None
       /\ query'.log = query.log
       /\ query.op = "surface_to_surface_transformer" => query'.log = <<>>
       /\ UNCHANGED <<graph, node_data, cache_vars>>]_vars

\* A surface_to_surface_transformer call A -> B at 41k, where the edge
\* A -> B has a 32k transform only, has returned None.
C23_Witness ==
  /\ query.op = "surface_to_surface_transformer"
  /\ query.stage = "done"
  /\ query.outcome = "Unresolved"
  /\ query.args.target_space = "B"
  /\ query.args.source_density = D41k
  /\ <<"A", "B", surface_to_surface_key>> \in DOMAIN graph.edges
  /\ get_surface_atlas(surface_atlas, "B", D32k, "left", "sphere") # None

\* The outcomes of a call of _resolve_sphere_transform.
ResolveOutcomes ==
  {"SameSpace", "NodeNotFound", "NoPath", "DirectHop", "Resolved"} \cup HopFailures

\* C24: every call of _resolve_sphere_transform terminates in NoPath,
\* DirectHop, Resolved or an error: the path is computed once, when the call
\* starts; while the call composes, the hop index lies between 2 and
\* Len(path) - 1 and each composition step either ends the call or raises
\* the index by exactly one, with the path and the number of find_path calls
\* unchanged, whatever the call registers meanwhile; and a call that
\* composes eventually returns.
C24_ResolveTerminates ==
  /\ [](call.pc = "composing" =>
          /\ call.find_path_calls = 1
          /\ call.hop_idx \in 2 .. (Len(call.path) - 1))
  /\ [](call.pc = "returned" =>
          call.outcome \in ResolveOutcomes /\ call.find_path_calls <= 1)
  /\ [][call.pc = "composing" =>
          /\ call'.pc \in {"composing", "returned"}
          /\ call'.path = call.path
          /\ call'.find_path_calls = call.find_path_calls
          /\ call'.pc = "composing" => call'.hop_idx = call.hop_idx + 1
          /\ call'.pc = "returned" => call'.hop_idx = call.hop_idx]_vars
  /\ (call.pc = "composing") ~> (call.pc = "returned")

\* A call over a path of four spaces has registered two derived transforms
\* in the store while it ran, and has returned from its last hop.
C24_Witness ==
  /\ Returned_("Resolved")
  /\ Len(call.path) = 4
  /\ call.hop_idx = 3
  /\ Len(call.derived) = 2
  /\ surface_transform # call.store0

\* Every key of each of the four tables is still a key after the step.
KeysKept ==
  /\ DOMAIN surface_atlas \subseteq DOMAIN surface_atlas'
  /\ DOMAIN surface_transform \subseteq DOMAIN surface_transform'
  /\ DOMAIN volume_atlas \subseteq DOMAIN volume_atlas'
  /\ DOMAIN volume_transform \subseteq DOMAIN volume_transform'

\* After the step, get_* returns absent for every key a table had before it.
AllAbsentAfter ==
  /\ \A q \in DOMAIN surface_atlas :
       get_surface_atlas(surface_atlas', q[1], q[2], q[3], q[4]) = None
  /\ \A q \in DOMAIN surface_transform :
       get_surface_transform(surface_transform', q[1], q[2], q[3], q[4], q[5]) = None
  /\ \A q \in DOMAIN volume_atlas : get_volume_atlas(volume_atlas', q[1], q[2], q[3]) = None
  /\ \A q \in DOMAIN volume_transform :
       get_volume_transform(volume_transform', q[1], q[2], q[3], q[4]) = None
  /\ cache_vars' = <<EmptyTable, EmptyTable, EmptyTable, EmptyTable>>

\* C25: a step of any operation other than clear (the transformers with
\* their resolve, path and density queries, add_transform) keeps every key
\* of the four tables built from the definition; a clear step leaves the
\* four tables empty, so that every get_* returns absent.
C25_OnlyClearRemovesKeys ==
  [][/\ clear \/ KeysKept
     /\ clear => AllAbsentAfter]_vars

\* The store was cleared and a transform registered afterwards is its only
\* entry, while the graph still has the edges of the definition.
C25_Witness ==
  /\ surface_atlas = EmptyTable
  /\ volume_atlas = EmptyTable
  /\ nadds = 1
  /\ Cardinality(DOMAIN surface_transform \cup DOMAIN volume_transform) = 1
  /\ <<"B", "C", surface_to_surface_key>> \in DOMAIN graph.edges

\* The table new is the table old with the object under key replaced by obj
\* and every other entry as it was.
ReplacedAt(old, new, key, obj) ==
  /\ DOMAIN new = DOMAIN old
  /\ new[key] = obj
  /\ \A k \in DOMAIN old \ {key} : new[k] = old[k]

\* The same resource referring to another file.
OtherObject(obj) == [obj EXCEPT !.file_path = [@ EXCEPT !.dir = "other"]]

\* C26: an insert under a key that its table already has replaces the
\* stored object by the new one and leaves every other entry of the four
\* tables unchanged.  The inserts of the program on an existing key are
\* those of add_transform and of a composition step of resolve (the derived
\* transform it registers is the last of call.derived); for the bulk
\* inserts every entry of the current tables is inserted again as another
\* object.
C26_InsertReplaces ==
  /\ [][\A r \in Registrations :
          add_transform(r[1], r[2]) =>
            IF IsSurfaceTransform(r[1])
              THEN /\ SurfaceTransformKey(r[1]) \in DOMAIN surface_transform =>
                        ReplacedAt(surface_transform, surface_transform',
                                   SurfaceTransformKey(r[1]), r[1])
                   /\ UNCHANGED <<surface_atlas, volume_atlas, volume_transform>>
              ELSE /\ VolumeTransformKey(r[1]) \in DOMAIN volume_transform =>
                        ReplacedAt(volume_transform, volume_transform',
                                   VolumeTransformKey(r[1]), r[1])
                   /\ UNCHANGED <<surface_atlas, surface_transform, volume_atlas>>]_vars
  /\ [][(/\ call.pc = "composing"
          /\ call.add_edge
          /\ Len(call'.derived) = Len(call.derived) + 1) =>
            LET new_transform == call'.derived[Len(call'.derived)]
            IN /\ SurfaceTransformKey(new_transform) \in DOMAIN surface_transform =>
                    ReplacedAt(surface_transform, surface_transform',
                               SurfaceTransformKey(new_transform), new_transform)
               /\ UNCHANGED <<surface_atlas, volume_atlas, volume_transform>>]_vars
  /\ [](call.pc = "idle" =>
          /\ \A k \in DOMAIN surface_atlas :
               ReplacedAt(surface_atlas,
                          add_surface_atlases(surface_atlas, <<OtherObject(surface_atlas[k])>>),
                          k, OtherObject(surface_atlas[k]))
          /\ \A k \in DOMAIN surface_transform :
               ReplacedAt(surface_transform,
                          add_surface_transforms(surface_transform,
                                                 <<OtherObject(surface_transform[k])>>),
                          k, OtherObject(surface_transform[k]))
          /\ \A k \in DOMAIN volume_atlas :
               ReplacedAt(volume_atlas,
                          add_volume_atlases(volume_atlas, <<OtherObject(volume_atlas[k])>>),
                          k, OtherObject(volume_atlas[k]))
          /\ \A k \in DOMAIN volume_transform :
               ReplacedAt(volume_transform,
                          add_volume_transforms(volume_transform,
                                                <<OtherObject(volume_transform[k])>>),
                          k, OtherObject(volume_transform[k])))

\* A resolve registered the derived transform A -> C in the store and an
\* add_transform then replaced it, under the same key, by the caller's.
C26_Witness ==
  \E t \in UserSurfaceTransforms :
    /\ ComposedKey(t.source_space, t.target_space, t.density, t.hemisphere) \in DOMAIN composed
    /\ SurfaceTransformKey(t) \in DOMAIN surface_transform
    /\ surface_transform[SurfaceTransformKey(t)] = t

\* build_from_dict has returned.
BuildDone == query.raised = "" /\ query.i > Len(BuildSteps(query.args[1]))

Distinct(seq) == \A i, j \in DOMAIN seq : seq[i] = seq[j] => i = j

\* No space is declared twice, no edge of a class is given twice and no
\* two resources of the definition have the same key.
NoDuplicateKeys(def) ==
  /\ Distinct([i \in DOMAIN def.nodes |-> def.nodes[i].name])
  /\ Distinct([i \in DOMAIN def.surface_edges |->
                 <<def.surface_edges[i].from, def.surface_edges[i].to>>])
  /\ Distinct([i \in DOMAIN def.volume_edges |->
                 <<def.volume_edges[i].from, def.volume_edges[i].to>>])
  /\ LET sa == CreatedSurfaceAtlases(def)
         va == CreatedVolumeAtlases(def)
         st == CreatedSurfaceTransforms(def)
         vt == CreatedVolumeTransforms(def)
     IN /\ Distinct([i \in DOMAIN sa |-> SurfaceAtlasKey(sa[i])])
        /\ Distinct([i \in DOMAIN va |-> VolumeAtlasKey(va[i])])
        /\ Distinct([i \in DOMAIN st |-> SurfaceTransformKey(st[i])])
        /\ Distinct([i \in DOMAIN vt |-> VolumeTransformKey(vt[i])])

\* C27: when the build of a definition without duplicate keys has returned,
\* the build of the same entries in any other order of the node list and of
\* the edge lists gives the same graph (nodes, keyed edges with their
\* bundles and weights), node data and four tables; and in every built
\* store each key holds the resource that the definition creates last for it.
C27_BuildOrderIndependent ==
  BuildDone =>
    LET def == query.args[1]
        sa == CreatedSurfaceAtlases(def)
        va == CreatedVolumeAtlases(def)
        st == CreatedSurfaceTransforms(def)
        vt == CreatedVolumeTransforms(def)
    IN /\ NoDuplicateKeys(def) =>
            \A other \in Reorderings(def) : build_from_dict(EmptyWorld, other) = CurrentWorld
       /\ \A i \in DOMAIN sa :
            surface_atlas[SurfaceAtlasKey(sa[i])] = LastCreated(sa, i, SurfaceAtlasKey)
       /\ \A i \in DOMAIN va :
            volume_atlas[VolumeAtlasKey(va[i])] = LastCreated(va, i, VolumeAtlasKey)
       /\ \A i \in DOMAIN st :
            surface_transform[SurfaceTransformKey(st[i])]
              = LastCreated(st, i, SurfaceTransformKey)
       /\ \A i \in DOMAIN vt :
            volume_transform[VolumeTransformKey(vt[i])]
              = LastCreated(vt, i, VolumeTransformKey)

\* A definition without duplicate keys was built with Q declared before P
\* and the edges out of Q given before those out of P.
C27_Witness ==
  /\ BuildDone
  /\ NoDuplicateKeys(query.args[1])
  /\ query.args[1].nodes[1].name = "Q"
  /\ query.args[1].surface_edges[1].from = "Q"
  /\ query.args[1].volume_edges[1].from = "Q"
  /\ Cardinality(DOMAIN surface_transform) = 2
  /\ Cardinality(DOMAIN graph.edges) = 4

\* The transforms held in the store or bundled on an edge of the graph.
TransformsHeld ==
  {surface_transform[k] : k \in DOMAIN surface_transform}
    \cup {volume_transform[k] : k \in DOMAIN volume_transform}
    \cup UNION {Range(graph.edges[e].data.surface_transforms)
                  \cup Range(graph.edges[e].data.volume_transforms) : e \in DOMAIN graph.edges}

\* C28: in every reachable state the source and the target space of each
\* transform in the store or on an edge are nodes of the graph that carry
\* Node data.
C28_TransformSpacesAreDeclared ==
  \A t \in TransformsHeld :
    /\ {t.source_space, t.target_space} \subseteq graph.nodes
    /\ {t.source_space, t.target_space} \subseteq DOMAIN node_data

\* The file is on disk.
OnDisk(file_path) == file_path.tag # NoSuchFile

\* The atlases and transforms held in the store, on a node or on an edge.
ResourcesHeld ==
  TransformsHeld
    \cup {surface_atlas[k] : k \in DOMAIN surface_atlas}
    \cup {volume_atlas[k] : k \in DOMAIN volume_atlas}
    \cup UNION {Range(node_data[n].surfaces) \cup Range(node_data[n].volumes) :
                  n \in DOMAIN node_data}

\* The entry of the definition names a file that is not on disk.
NamesMissingFile(step) ==
  LET leaves == IF step.kind = "node" THEN step.entry.surfaces \o step.entry.volumes
                ELSE IF step.kind = "surface_edge" THEN step.entry.surfaces
                ELSE step.entry.volumes
  IN \E i \in DOMAIN leaves : ~OnDisk(_resolve_path(leaves[i].path))

\* C29: every resource in the store, on a node or on an edge refers to a
\* file on disk; the iteration of the build on an entry that names a
\* missing file raises FileNotFoundError and adds no node, edge or store
\* entry, any other iteration raises nothing; and the build takes no step
\* after the exception (it reaches the caller of the builder).
C29_MissingFileFailsTheBuild ==
  /\ [](\A r \in ResourcesHeld : OnDisk(r.file_path))
  /\ [][/\ Building
        /\ IF NamesMissingFile(NextEntry)
             THEN /\ query'.raised = "FileNotFoundError"
                  /\ UNCHANGED <<graph, node_data, cache_vars>>
             ELSE /\ query'.raised = ""
                  /\ query'.i = query.i + 1]_vars

\* The build raised at an edge entry after the entries before it were built.
C29_Witness ==
  /\ query.raised = "FileNotFoundError"
  /\ NextEntry.kind = "surface_edge"
  /\ query.i = 4
  /\ DOMAIN node_data = {"P", "Q"}
  /\ Cardinality(DOMAIN surface_transform) = 1

\* The sphere atlases of space, and the sphere transforms source -> target,
\* in the store at the density and for the hemisphere given.
SphereAtlasesAt(space, density, hemisphere) ==
  {a \in {surface_atlas[k] : k \in DOMAIN surface_atlas} :
     /\ a.space = space /\ a.density = density
     /\ a.hemisphere = hemisphere /\ a.resource_type = "sphere"}
SphereTransformsAt(st, source, target, density, hemisphere) ==
  {t \in {st[k] : k \in DOMAIN st} :
     /\ t.source_space = source /\ t.target_space = target /\ t.density = density
     /\ t.hemisphere = hemisphere /\ t.resource_type = "sphere"}

\* C30: the iteration at hop index i of a multi-hop resolve looks up the
\* sphere atlas of path[i-1] and the sphere transform path[i-1] -> path[i]
\* at find_common_density(path[i-1], path[i]) for the hemisphere of the
\* call: it ends with NoAtlas, resp. NoTransform, when there is none, and
\* the external operation it invokes gets the files of those two; the
\* first external operation gets as input the file of a transform
\* path[0] -> path[1] of the caller's density; and every derived transform
\* has the caller's density and, with add_edge, is stored under it.
C30_HopLookupsAtCommonDensity ==
  /\ [][call.pc = "composing" =>
          LET i == call.hop_idx
              mid == At(call.path, i - 1)
              next == At(call.path, i)
              common == find_common_density(surface_atlas, surface_transform, mid, next)
              atlases == SphereAtlasesAt(mid, common, call.hemisphere)
              transforms == SphereTransformsAt(surface_transform, mid, next, common,
                                               call.hemisphere)
          IN /\ (common # None /\ atlases = {}) =>
                  call'.pc = "returned" /\ call'.outcome = "NoAtlas"
             /\ (common # None /\ atlases # {} /\ transforms = {}) =>
                  call'.pc = "returned" /\ call'.outcome = "NoTransform"
             /\ Len(call'.ext_calls) > Len(call.ext_calls) =>
                  LET invocation == call'.ext_calls[Len(call'.ext_calls)]
                  IN /\ invocation.hop_idx = i
                     /\ \E a \in atlases : invocation.sphere_project_to = a.file_path
                     /\ \E t \in transforms : invocation.sphere_unproject_from = t.file_path
             /\ Len(call'.derived) > Len(call.derived) =>
                  LET new_transform == call'.derived[Len(call'.derived)]
                  IN /\ new_transform.density = call.density
                     /\ new_transform.target_space = next
                     /\ call.add_edge =>
                          surface_transform'[<<call.source, next, call.density,
                                               call.hemisphere, "sphere">>] = new_transform]_vars
  /\ []((call.pc \in {"composing", "returned"} /\ call.ext_calls # <<>>) =>
          \E t \in SphereTransformsAt(call.store0, At(call.path, 0), At(call.path, 1),
                                      call.density, call.hemisphere) :
            call.ext_calls[1].sphere_in = t.file_path)

\* A resolve at 32k composed a hop through a space whose common density
\* with the next space is 41k: the atlas and the transform of that hop are
\* the 41k ones, the derived transform is a 32k one.
C30_Witness ==
  /\ Returned_("Resolved")
  /\ call.density = D32k
  /\ call.derived[1].density = D32k
  /\ \E a \in SphereAtlasesAt(At(call.path, 1), D41k, call.hemisphere) :
       call.ext_calls[1].sphere_project_to = a.file_path

\* C31: a step of a resolve call leaves the atlas tables, the volume
\* transforms and the node data unchanged, and changes the surface
\* transforms or the graph only in a composition step of a call with
\* add_edge, by registering the transform derived in that step; so a call
\* that returns as a direct hop, or before it derived a transform, or with
\* add_edge = False, returns with the store and the graph it started from.
C31_ResolveOnlyRegistersDerived ==
  /\ [][(call'.pc # call.pc \/ call'.hop_idx # call.hop_idx) =>
          /\ UNCHANGED <<surface_atlas, volume_atlas, volume_transform, node_data>>
          /\ (surface_transform' # surface_transform \/ graph' # graph) =>
               /\ call.pc = "composing"
               /\ call.add_edge
               /\ Len(call'.derived) = Len(call.derived) + 1
               /\ LET new_transform == call'.derived[Len(call'.derived)]
                  IN /\ surface_transform' = add_surface_transform(surface_transform,
                                                                   new_transform)
                     /\ graph' \in {graph,
                                    add_edge(graph, new_transform.source_space,
                                             new_transform.target_space, surface_to_surface_key,
                                             Edge(<<new_transform>>, <<>>),
                                             new_transform.weight)}]_vars
  /\ []((/\ call.pc = "returned"
         /\ \/ call.outcome = "DirectHop"
            \/ call.derived = <<>>
            \/ ~call.add_edge) =>
          /\ surface_transform = call.store0
          /\ graph = call.graph0)

\* A resolve without add_edge composed two hops and returned its result
\* with the store as it was.
C31_Witness ==
  /\ Returned_("Resolved")
  /\ ~call.add_edge
  /\ Len(call.derived) = 2
  /\ surface_transform = call.store0
  /\ graph = call.graph0

\* The transformer kind, the input file and the spaces of the arguments a,
\* as the call finds them.
KindIsValid(a) == a.transformer_type \in {"metric", "label"}
FileIsThere(a) == a.input_file.exists
SpacesAreKnown(a) == {a.source_space, a.target_space} \subseteq graph.nodes

\* The call recorded in q was rejected before it did anything: no lookup,
\* no external operation, no call of the resolver.
RejectedAtOnce(q) ==
  /\ q.stage = "done"
  /\ q.result = None
  /\ q.log = <<>>
  /\ q.outcome \in {"InvalidTransformerKind", "MissingInputArtifact", "ValueError",
                    "UnknownSourceSpace", "UnknownTargetSpace"}

\* C32 (a step that starts a transformer call is a step from an idle state
\* that changes the record of the last call; its arguments are in the new
\* record): a surface_to_surface_transformer or volume_to_surface_transformer
\* call with an invalid kind, a missing input file or an unknown space is
\* rejected in its first step, before any path-finding, mutation, lookup or
\* external operation, and reports the source space when both spaces are
\* unknown; a volume_to_volume_transformer call with an unknown space or a
\* missing input file is rejected before the transform lookup, and one whose
\* transform is missing fails after that lookup alone, without the lookup
\* of the target atlas.
C32_RejectedBeforeAnyWork ==
  [][/\ \A a \in {query'.args} :
          (/\ Idle
           /\ query' # query
           /\ query'.op \in {"surface_to_surface_transformer",
                             "volume_to_surface_transformer"}) =>
            /\ ~(KindIsValid(a) /\ FileIsThere(a) /\ SpacesAreKnown(a)) =>
                 /\ RejectedAtOnce(query')
                 /\ UNCHANGED <<graph, node_data, cache_vars, subgraph_memo, call, composed>>
            /\ ~KindIsValid(a) => query'.outcome = "InvalidTransformerKind"
            /\ (KindIsValid(a) /\ ~FileIsThere(a) /\ SpacesAreKnown(a)) =>
                 query'.outcome = "MissingInputArtifact"
            /\ (KindIsValid(a) /\ FileIsThere(a) /\ a.source_space \notin graph.nodes) =>
                 query'.outcome = "UnknownSourceSpace"
            /\ (KindIsValid(a) /\ FileIsThere(a) /\ a.source_space \in graph.nodes
                  /\ a.target_space \notin graph.nodes) =>
                 query'.outcome = "UnknownTargetSpace"
     /\ \A a \in {query'.args} :
          (Idle /\ query' # query /\ query'.op = "volume_to_volume_transformer") =>
            /\ ~(FileIsThere(a) /\ SpacesAreKnown(a)) =>
                 /\ RejectedAtOnce(query')
                 /\ UNCHANGED <<graph, node_data, cache_vars, subgraph_memo, call, composed>>
            /\ (FileIsThere(a) /\ a.source_space \notin graph.nodes) =>
                 query'.outcome = "UnknownSourceSpace"
            /\ (FileIsThere(a) /\ a.source_space \in graph.nodes
                  /\ a.target_space \notin graph.nodes) =>
                 query'.outcome = "UnknownTargetSpace"
            /\ (/\ a.input_file = VolumeFile
                /\ SpacesAreKnown(a)
                /\ get_volume_transform(volume_transform, a.source_space, a.target_space,
                                        a.resolution, a.resource_type) = None) =>
                 /\ query'.outcome = "NoTransform"
                 /\ Len(query'.log) = 1
                 /\ query'.log[1].ev = "fetch"
                 /\ query'.log[1].what = "volume_transform"]_vars

\* A surface call whose source and target are both unknown was rejected
\* for its source, on a store that a resolve has extended before.
C32_Witness ==
  /\ query.op = "surface_to_surface_transformer"
  /\ query.args.source_space = UnknownSpace
  /\ query.args.target_space = UnknownSpace
  /\ query.args.input_file = SurfaceFile
  /\ query.outcome = "UnknownSourceSpace"
  /\ composed # EmptyTable

(***************************************************************************)
(* What resolve_surface_transform(source, target, density, hemisphere)     *)
(* does on a given graph and store when every external operation           *)
(* produces its output: the loop of _compose_multihop from hop_idx on,     *)
(* with the registrations of _compose_next_hop, and                        *)
(* _resolve_sphere_transform in front of it.                               *)
(***************************************************************************)
RECURSIVE ComposesFrom(_, _, _, _, _)
ComposesFrom(sa, st, path, hop_idx, a) ==
  IF hop_idx > Len(path) - 1 THEN TRUE
  ELSE LET next_space == At(path, hop_idx)
           mid_space == At(path, hop_idx - 1)
           common_density == HopDensity(sa, st, mid_space, next_space, a.density)
           hop_output == _hop_output_path(a.outdir, At(path, 0), next_space,
                                          a.density, a.hemisphere)
           new_transform == ComposedTransform(At(path, 0), next_space, a.density,
                                              a.hemisphere, hop_output, hop_idx)
       IN /\ common_density # None
          /\ get_surface_atlas(sa, mid_space, common_density, a.hemisphere, "sphere") # None
          /\ get_surface_transform(st, mid_space, next_space, common_density,
                                   a.hemisphere, "sphere") # None
          /\ ComposesFrom(sa, IF a.add_edge THEN RegisterComposed(st, new_transform) ELSE st,
                          path, NextHopIndex(hop_idx), a)

Resolves(memo, g, sa, st, a) ==
  /\ ~SameSpace(a.source, a.target)
  /\ \A r \in find_path(memo, g, a.source, a.target, surface_to_surface_key) :
       /\ r.raised = ""
       /\ Len(r.path) >= 2
       /\ Len(r.path) = 2 =>
            DirectHop(st, a.source, a.target, a.density, a.hemisphere).result # None
       /\ Len(r.path) > 2 =>
            /\ get_surface_transform(st, At(r.path, 0), At(r.path, 1),
                                     a.density, a.hemisphere, "sphere") # None
            /\ ComposesFrom(sa, st, r.path, 2, a)

\* The same call for another density or hemisphere.
OtherResolutions(c) ==
  {a \in [source : {c.source}, target : {c.target}, density : Densities,
          hemisphere : Hemispheres, add_edge : BOOLEAN, outdir : {c.outdir}] :
     a.density # c.density \/ a.hemisphere # c.hemisphere}

Registered(c) == c.pc = "returned" /\ c.outcome = "Resolved" /\ c.add_edge

UserEdgeTransforms ==
  {SurfaceTransform("A", "B", D41k, "left", "sphere",
                    FilePath("user", "A", "B", D41k, "left", "sphere"), 1)}

EdgeRegistrations == {<<t, surface_to_surface_key>> : t \in UserEdgeTransforms}

RegisterNext ==
  \/ \E a \in ResolveArgs, outdir \in OutDirs :
       ResolveStart(a[1][1], a[1][2], a[2], a[3], a[4], outdir)
  \/ \E ok \in BOOLEAN : ComposeNextHop(ok)
  \/ Return
  \/ \E r \in Registrations \cup EdgeRegistrations : add_transform(r[1], r[2])

RegisterSpec == Init /\ [][RegisterNext]_vars

\* The transforms of the class of an edge key that the store holds between
\* source and target.
StoreTransformsBetween(st, vt, key, source, target) ==
  LET held == IF key = surface_to_surface_key THEN {st[k] : k \in DOMAIN st}
              ELSE IF key = volume_to_volume_key THEN {vt[k] : k \in DOMAIN vt}
              ELSE {}
  IN {t \in held : t.source_space = source /\ t.target_space = target}

\* The transforms bundled on an edge.
Bundled(g, e) ==
  Range(g.edges[e].data.surface_transforms) \cup Range(g.edges[e].data.volume_transforms)

\* C34: an add_transform on a pair that already has an edge of the given
\* class leaves on that edge every transform of the class that the store
\* holds between the pair.
C34_AddTransformKeepsBundle ==
  [][nadds' # nadds
       => \A e \in DOMAIN graph.edges :
            graph'.edges[e] # graph.edges[e]
              => StoreTransformsBetween(surface_transform', volume_transform',
                                        e[3], e[1], e[2]) \subseteq Bundled(graph', e)]_vars

\* C35: in every reachable state an edge keyed surface_to_surface bundles
\* surface transforms only, an edge keyed volume_to_volume bundles volume
\* transforms only, and no edge has another key.
C35_EdgesBundleTheirOwnClass ==
  \A e \in DOMAIN graph.edges :
    LET data == graph.edges[e].data
    IN /\ e[3] \in {surface_to_surface_key, volume_to_volume_key}
       /\ \A t \in Range(data.surface_transforms) : IsSurfaceTransform(t)
       /\ \A t \in Range(data.volume_transforms) : IsVolumeTransform(t)
       /\ e[3] = surface_to_surface_key => data.volume_transforms = <<>>
       /\ e[3] = volume_to_volume_key => data.surface_transforms = <<>>

\* The hop that the next iteration of _compose_multihop makes.
HopMid(c) == At(c.path, c.hop_idx - 1)
HopNext(c) == At(c.path, c.hop_idx)

\* Density d has a sphere atlas of mid and a sphere transform mid -> next
\* for the hemisphere.
HasBoth(d, mid_space, next_space, hemisphere) ==
  /\ get_surface_atlas(surface_atlas, mid_space, d, hemisphere, "sphere") # None
  /\ get_surface_transform(surface_transform, mid_space, next_space, d,
                           hemisphere, "sphere") # None

\* The hop ended for want of a density, an atlas or a transform.
HopLacksResource(c) ==
  c.pc = "returned" /\ c.outcome \in {"NoCommonDensity", "NoAtlas", "NoTransform"}

\* C36 as claimed: a hop mid -> next for hemisphere h never ends for want of
\* a density, atlas or transform when some density has both a sphere atlas
\* of mid for h and a sphere transform mid -> next for h.
C36_HopSucceedsWhenSomeDensityHasBoth ==
  [][(call.pc = "composing"
        /\ \E a \in fetch_surface_atlases(surface_atlas, HopMid(call)) :
             HasBoth(a.density, HopMid(call), HopNext(call), call.hemisphere))
       => ~HopLacksResource(call')]_vars

\* C36 as amended: the hop runs at the highest density that occurs both among
\* the surface atlases of mid and among the surface transforms mid -> next,
\* of whatever hemisphere and type; it reaches the external operation exactly
\* when that density has a sphere atlas of mid and a sphere transform
\* mid -> next for the hemisphere, and then projects through them.
C36_HopRunsAtHighestCommonDensity ==
  [][call.pc = "composing"
       => LET common == CommonDensities(surface_atlas, surface_transform,
                                        HopMid(call), HopNext(call))
              chosen == MaxDensity(common)
              n == Len(call'.ext_calls)
          IN IF common # {} /\ HasBoth(chosen, HopMid(call), HopNext(call), call.hemisphere)
               THEN /\ ~HopLacksResource(call')
                    /\ n = Len(call.ext_calls) + 1
                    /\ call'.ext_calls[n].sphere_project_to =
                         get_surface_atlas(surface_atlas, HopMid(call), chosen,
                                           call.hemisphere, "sphere").file_path
                    /\ call'.ext_calls[n].sphere_unproject_from =
                         get_surface_transform(surface_transform, HopMid(call), HopNext(call),
                                               chosen, call.hemisphere, "sphere").file_path
               ELSE /\ HopLacksResource(call')
                    /\ call'.ext_calls = call.ext_calls
                    /\ UNCHANGED <<graph, surface_transform>>]_vars

\* A resolved call one of whose hops ran at a density other than the caller's.
C36_Witness ==
  /\ call.pc = "returned" /\ call.outcome = "Resolved"
  /\ \E i \in 1..Len(call.ext_calls) :
       call.ext_calls[i].sphere_project_to.density # call.density

(***************************************************************************)
(* A caller that changes a field of a transform it fetched from the store  *)
(* and registers the object again (tests/test_graph.py,                    *)
(* test_add_transform).  The models are mutable and the store, the edge    *)
(* bundles and the cached subgraphs hold the object itself, so the         *)
(* assignment shows wherever the object is held.                           *)
(***************************************************************************)
ChangedResourceType == "test_transform_resource"

\* `surface_transform.resource_type = ...` seen through a table that holds
\* the object.
AssignedInTable(table, old, new) ==
  [k \in DOMAIN table |-> IF table[k] = old THEN new ELSE table[k]]

AssignedInBundle(ts, old, new) ==
  [i \in 1..Len(ts) |-> IF ts[i] = old THEN new ELSE ts[i]]

\* The same, seen through the Edge records of a graph.
AssignedInGraph(g, old, new) ==
  Graph(g.nodes,
        [e \in DOMAIN g.edges |->
           [g.edges[e] EXCEPT
              !.data = Edge(AssignedInBundle(@.surface_transforms, old, new),
                            @.volume_transforms)]])

\* fetch_surface_transform, the assignment to resource_type, and
\* add_transform(transform, key) with the changed object.
ReAddChanged(k, key) ==
  /\ call.pc = "idle"
  /\ nadds < MaxAdds
  /\ k \in DOMAIN surface_transform
  /\ nadds' = nadds + 1
  /\ LET old == surface_transform[k]
         transform == [old EXCEPT !.resource_type = ChangedResourceType]
     IN /\ surface_transform' =
             add_surface_transform(AssignedInTable(surface_transform, old, transform),
                                   transform)
        /\ graph' = add_edge(AssignedInGraph(graph, old, transform),
                             transform.source_space, transform.target_space, key,
                             Edge(<<transform>>, <<>>), transform.weight)
        /\ subgraph_memo' = [c \in DOMAIN subgraph_memo |->
                               AssignedInGraph(subgraph_memo[c], old, transform)]
  /\ UNCHANGED <<node_data, surface_atlas, volume_atlas, volume_transform,
                 call, composed, query>>

\* The stored transforms the caller fetches and changes.
ReAddKeys == {<<"A", "B", D32k, "left", "sphere">>, <<"C", "D", D32k, "left", "sphere">>}

ReAddNext ==
  \/ \E a \in ResolveArgs, outdir \in OutDirs :
       ResolveStart(a[1][1], a[1][2], a[2], a[3], a[4], outdir)
  \/ \E ok \in BOOLEAN : ComposeNextHop(ok)
  \/ Return
  \/ \E r \in Registrations : add_transform(r[1], r[2])
  \/ \E k \in ReAddKeys : ReAddChanged(k, surface_to_surface_key)

ReAddSpec == Init /\ [][ReAddNext]_vars

\* C37: every entry of each table of the store is filed under the key formed
\* from its own fields.
C37_EntriesUnderOwnKey ==
  /\ \A k \in DOMAIN surface_atlas : k = SurfaceAtlasKey(surface_atlas[k])
  /\ \A k \in DOMAIN surface_transform : k = SurfaceTransformKey(surface_transform[k])
  /\ \A k \in DOMAIN volume_atlas : k = VolumeAtlasKey(volume_atlas[k])
  /\ \A k \in DOMAIN volume_transform : k = VolumeTransformKey(volume_transform[k])

\* C38 (calls confined to one thread): no call composes and registers a
\* derived key that an earlier call has already composed and registered;
\* the key composed twice is an outcome that only interleaved calls reach.
C38_OneThreadRegistersKeyOnce ==
  [][(call.pc = "composing" /\ Registered(call'))
       => ComposedKey(call.source, call.target, call.density, call.hemisphere)
            \notin DOMAIN composed]_vars

====
